---- MODULE Spec2Model ----
(***************************************************************************)
(* A model of the Skytable engine: the statement dispatcher (exec.rs), the *)
(* blocking DDL workers and the GlobalNS they mutate, and the generic      *)
(* dictionary codec (storage/v1/inf/map.rs).                               *)
(***************************************************************************)
EXTENDS Integers, Sequences, FiniteSets, TLC

(***************************************************************************)
(* Bounds                                                                  *)
(***************************************************************************)
\* number of client connections (each one per-connection task)
NConns == 2
\* longest lexed query, in tokens
MaxTokens == 4

Conns == 1..NConns

(***************************************************************************)
(* Tokens (ql::lex::Token) and statement keywords (ql::lex::KeywordStmt)   *)
(***************************************************************************)
BlockingStmts == {"SYSCTL", "CREATE", "ALTER", "DROP"}
NonBlockingStmts ==
    {"USE", "INSPECT", "DESCRIBE", "INSERT", "SELECT", "UPDATE", "DELETE", "EXISTS"}
StmtKeywords == BlockingStmts \cup NonBlockingStmts

\* KeywordStmt::value_u8: the enum's contiguous discriminants
value_u8(s) ==
    CASE s = "SYSCTL" -> 0 [] s = "CREATE" -> 1 [] s = "ALTER" -> 2
      [] s = "DROP" -> 3 [] s = "USE" -> 4 [] s = "INSPECT" -> 5
      [] s = "DESCRIBE" -> 6 [] s = "INSERT" -> 7 [] s = "SELECT" -> 8
      [] s = "UPDATE" -> 9 [] s = "DELETE" -> 10 [] s = "EXISTS" -> 11

\* KeywordStmt::is_blocking
is_blocking(s) == value_u8(s) <= value_u8("DROP")

TokStmt(s) == [k |-> "stmt", v |-> s]
TokSpace == [k |-> "kw", v |-> "space"]
TokModel == [k |-> "kw", v |-> "model"]
TokIdent(n) == [k |-> "ident", v |-> n]
TokLit == [k |-> "lit", v |-> "1"]
TokForce == TokIdent("force")
TokPeriod == [k |-> "sym", v |-> "."]
TokOpenBrace == [k |-> "sym", v |-> "{"]
TokCloseBrace == [k |-> "sym", v |-> "}"]
TokOpenParen == [k |-> "sym", v |-> "("]
TokCloseParen == [k |-> "sym", v |-> ")"]
TokColon == [k |-> "sym", v |-> ":"]
TokTy(ty) == [k |-> "ty", v |-> ty]
TokWith == [k |-> "kw", v |-> "with"]
TokPrimary == [k |-> "kw", v |-> "primary"]
TokRemove == [k |-> "kw", v |-> "remove"]

\* Token::is_ident
is_ident(t) == t.k = "ident"

\* the names of spaces the clients use
SpaceNames == {"s", "t"}
\* a name read from released memory that is no name a client sent
GarbageName == "?"
AnyNames == SpaceNames \cup {GarbageName}

\* the query State over a token buffer: State::remaining, State::read
remaining(toks, i) == Len(toks) - i
read(toks, i) == toks[i + 1]
\* read indexes the token slice at the cursor: with no token there the index is
\* out of bounds and the read panics
exhausted(toks, i) == remaining(toks, i) <= 0
\* State::current: the tokens from the cursor on
current(toks, i) == SubSeq(toks, i + 1, Len(toks))

(***************************************************************************)
(* The queries the clients send, as lexed token sequences.                 *)
(***************************************************************************)
FirstTokens == {TokStmt(s) : s \in StmtKeywords} \cup {TokIdent("s"), TokSpace}
SecondTokens == {TokSpace, TokModel, TokIdent("s")}
ThirdTokens == {TokIdent("s"), TokIdent("t"), TokLit}
TailTokens == {TokForce, TokLit}

QueriesOfLen(n) ==
    CASE n = 1 -> {<<a>> : a \in FirstTokens}
      [] n = 2 -> {<<a, b>> : a \in FirstTokens, b \in SecondTokens}
      [] n = 3 -> {<<a, b, c>> : a \in FirstTokens, b \in SecondTokens, c \in ThirdTokens}
      [] OTHER -> UNION {{<<a, b, c>> \o tl : a \in FirstTokens, b \in SecondTokens,
                             c \in ThirdTokens} :
                         tl \in {[i \in 1..(n - 3) |-> d] : d \in TailTokens}}

\* the queries of up to MaxTokens tokens, the empty query among them
ExecQueries == {<<>>} \cup UNION {QueriesOfLen(n) : n \in 1..MaxTokens}

QCreateSpace(n) == <<TokStmt("CREATE"), TokSpace, TokIdent(n)>>
NSQueries == {QCreateSpace(n) : n \in SpaceNames}

\* one statement of every DDL kind, on the space s and its model s.t
Forced(q, force) == IF force THEN Append(q, TokForce) ELSE q
EntityST == <<TokIdent("s"), TokPeriod, TokIdent("t")>>
QAlterSpace == <<TokStmt("ALTER"), TokSpace, TokIdent("s"), TokWith, TokOpenBrace, TokCloseBrace>>
QDropSpace(force) == Forced(<<TokStmt("DROP"), TokSpace, TokIdent("s")>>, force)
QCreateModel ==
    <<TokStmt("CREATE"), TokModel>> \o EntityST
        \o <<TokOpenParen, TokPrimary, TokIdent("id"), TokColon, TokTy("uint64"), TokCloseParen>>
QAlterModel == <<TokStmt("ALTER"), TokModel>> \o EntityST \o <<TokRemove, TokIdent("f")>>
QDropModel(force) == Forced(<<TokStmt("DROP"), TokModel>> \o EntityST, force)
DDLQueries ==
    {QCreateSpace("s"), QAlterSpace, QDropSpace(FALSE),
     QCreateModel, QAlterModel, QDropModel(TRUE)}

QueriesOf(w) ==
    CASE w = "exec" -> ExecQueries
      [] w = "ns" -> NSQueries
      [] w = "ddl" -> DDLQueries
      [] OTHER -> {}

(***************************************************************************)
(* u8 arithmetic                                                           *)
(***************************************************************************)
RECURSIVE BitOr(_, _)
BitOr(x, y) ==
    IF x = 0 THEN y
    ELSE IF y = 0 THEN x
    ELSE (IF x % 2 = 1 \/ y % 2 = 1 THEN 1 ELSE 0) + 2 * BitOr(x \div 2, y \div 2)

B2U(b) == IF b THEN 1 ELSE 0
WrapU8(x) == x % 256

VARIABLES
    conn,       \* per connection: the dispatcher's position and locals
    worker,     \* per connection: the blocking task spawned for it
    spaces,     \* GlobalNS: space name -> space (tagged by its creator)
    guard,      \* holder of the GlobalNS DDL guard, 0 when free
    wins,       \* per space name: how many CREATE SPACE committed it
    workload,   \* per connection: which queries its client sends ("none": no client)
    codec,      \* the dictionary codec's input, bytes and output
    fmap,       \* the field map codec's input, bytes and output
    tagio,      \* the tag functions' input byte and result
    lists,      \* the list model: its table and each client's LSET/LGET in progress
    index,      \* a primary index under its calls, with the last call
    ql,         \* the query language's parsers: tokens or text in, result out
    memlist,    \* a list value built from an array of values
    pobj,       \* default_full_dec of a persisted object: its steps so far
    uarray,     \* a UArray of capacity N and what was pushed into it
    client      \* the command-line client's connection during run_query

\* the dispatcher's variables, and every other subsystem's
execVars == <<conn, worker, spaces, guard, wins, workload>>
Unused == [phase |-> "unused"]
CodecIdle == [phase |-> "idle"]
\* the units that are checked on their own inputs
libVars == <<ql, memlist, pobj, uarray, client>>

vars ==
    <<conn, worker, spaces, guard, wins, workload, codec, fmap, tagio, lists, index,
      ql, memlist, pobj, uarray, client>>

(***************************************************************************)
(* The primary index (idx/stdhm.rs), as a function from keys to values     *)
(***************************************************************************)
EmptyMap == [k \in {} |-> 0]

st_contains(m, k) == k \in DOMAIN m

st_insert_noop(m, k, v) == [map |-> m, ok |-> k \notin DOMAIN m]
st_insert_overwrite(m, k, v) ==
    [map |-> [x \in DOMAIN m \cup {k} |-> IF x = k THEN v ELSE m[x]], ok |-> TRUE]
\* st_insert: a fresh insert, never an overwrite
st_insert(m, k, v) ==
    IF k \in DOMAIN m
    THEN [map |-> m, ok |-> FALSE]
    ELSE [map |-> [x \in DOMAIN m \cup {k} |-> IF x = k THEN v ELSE m[x]], ok |-> TRUE]

\* st_upsert: insert, or overwrite the value of a present key
st_upsert(m, k, v) == [x \in DOMAIN m \cup {k} |-> IF x = k THEN v ELSE m[x]]
\* st_clear
st_clear(m) == EmptyMap

\* st_delete: remove, report presence
st_delete(m, k) ==
    [map |-> [x \in DOMAIN m \ {k} |-> m[x]], ok |-> k \in DOMAIN m]

\* an optional value, as Option<V>
NoVal == [some |-> FALSE, v |-> "-"]
SomeVal(v) == [some |-> TRUE, v |-> v]

\* st_update: get_mut(key).map(|e| *e = val).is_some()
st_update_upsert(m, k, v) ==
    [map |-> [x \in DOMAIN m \cup {k} |-> IF x = k THEN v ELSE m[x]],
     ok |-> k \in DOMAIN m]
st_update(m, k, v) ==
    IF k \in DOMAIN m
    THEN [map |-> [m EXCEPT ![k] = v], ok |-> TRUE]
    ELSE [map |-> m, ok |-> FALSE]

\* st_update_return: get_mut(key).map(|e| swap(new, e)), the previous value
st_update_return(m, k, v) ==
    IF k \in DOMAIN m
    THEN [map |-> [m EXCEPT ![k] = v], ret |-> SomeVal(m[k])]
    ELSE [map |-> m, ret |-> NoVal]

\* st_delete_return: remove(key)
st_delete_return(m, k) ==
    [map |-> [x \in DOMAIN m \ {k} |-> m[x]],
     ret |-> IF k \in DOMAIN m THEN SomeVal(m[k]) ELSE NoVal]

(***************************************************************************)
(* dispatch_to_executor (exec.rs)                                          *)
(***************************************************************************)
NoWorker ==
    [pc |-> "none", fc |-> 0, ptr |-> 0, len |-> 0, handler |-> "none",
     ast |-> "none", result |-> "none", absent |-> FALSE, uaf |-> FALSE]

FreshConn ==
    [pc |-> "idle", tokens |-> <<>>, alive |-> FALSE, cursor |-> 0, stmt |-> "none",
     outcome |-> "none", route |-> "none", handler |-> "none", absent |-> FALSE]

\* the dispatcher at rest, with no client
ExecAtRest ==
    /\ conn = [c \in Conns |-> FreshConn]
    /\ worker = [c \in Conns |-> NoWorker]
    /\ spaces = EmptyMap
    /\ guard = 0
    /\ wins = [n \in AnyNames |-> 0]
    /\ workload = [c \in Conns |-> "none"]

\* the dispatcher at rest and no codec, tag, list or index call under way
UnitsAtRest ==
    /\ ExecAtRest
    /\ codec = CodecIdle /\ fmap = Unused /\ tagio = Unused /\ lists = Unused /\ index = Unused

expect_statement_off_by_one(toks, i) ==
    IF exhausted(toks, i) THEN "panic"
    ELSE LET tok == read(toks, i)
         IN  IF tok.k = "stmt" /\ remaining(toks, i) >= 2 THEN tok.v ELSE "none"
\* the match on state.read(): the statement keyword, or "none" for
\* Err(QLExpectedStatement); state.read() is evaluated first, the guard
\* remaining() >= 3 after it, so on an empty token list the read panics
expect_statement(toks, i) ==
    IF exhausted(toks, i) THEN "panic"
    ELSE LET tok == read(toks, i)
         IN  IF tok.k = "stmt" /\ remaining(toks, i) >= 3 THEN tok.v ELSE "none"

dispatch_route_swapped(s) == IF is_blocking(s) THEN "inline" ELSE "pool"
\* the branch on stmt.is_blocking(): run_blocking_stmt (the pool) or run_nb (inline)
dispatch_route(s) == IF is_blocking(s) THEN "pool" ELSE "inline"

(***************************************************************************)
(* run_blocking_stmt (exec.rs)                                             *)
(***************************************************************************)
blk_terms_copy_paste(stmt, a, b) ==
    LET create == stmt = "CREATE"
        alter == stmt = "ALTER"
        drop == stmt = "DROP"
        last_id == is_ident(b)
    IN  << B2U(stmt = "SYSCTL"),
           B2U(create /\ TokSpace = a /\ last_id) * 2,
           B2U(create /\ TokModel = a /\ last_id) * 3,
           B2U(alter /\ TokSpace = a /\ last_id) * 4,
           B2U(alter /\ TokModel = a /\ last_id) * 5,
           B2U(drop /\ TokSpace = a /\ last_id) * 6,
           B2U(create /\ TokModel = a /\ last_id) * 7 >>
\* the terms sysctl, c_s, c_m, a_s, a_m, d_s, d_m
blk_terms(stmt, a, b) ==
    LET sysctl == stmt = "SYSCTL"
        create == stmt = "CREATE"
        alter == stmt = "ALTER"
        drop == stmt = "DROP"
        last_id == is_ident(b)
    IN  << B2U(sysctl),
           B2U(create /\ TokSpace = a /\ last_id) * 2,
           B2U(create /\ TokModel = a /\ last_id) * 3,
           B2U(alter /\ TokSpace = a /\ last_id) * 4,
           B2U(alter /\ TokModel = a /\ last_id) * 5,
           B2U(drop /\ TokSpace = a /\ last_id) * 6,
           B2U(drop /\ TokModel = a /\ last_id) * 7 >>

RECURSIVE OrAll(_)
OrAll(ts) == IF ts = <<>> THEN 0 ELSE BitOr(Head(ts), OrAll(Tail(ts)))

\* fc = sysctl as u8 | c_s | c_m | a_s | a_m | d_s | d_m
blk_index(stmt, a, b) == OrAll(blk_terms(stmt, a, b))

BLK_EXEC_shifted(fc) ==
    << "unknown", "sysctl", "drop_space", "create_model", "alter_space",
       "alter_model", "create_space", "drop_model" >>[fc + 1]
\* the table BLK_EXEC of blocking handlers
BLK_EXEC(fc) ==
    << "unknown", "sysctl", "create_space", "create_model", "alter_space",
       "alter_model", "drop_space", "drop_model" >>[fc + 1]

after_spawn_detached(t) ==
    [t EXCEPT !.pc = "done", !.outcome = "ok"]
\* spawn_blocking(..).await: the dispatcher suspends until the worker is done
after_spawn(t) == [t EXCEPT !.pc = "dispatched"]

(***************************************************************************)
(* run_nb (exec.rs)                                                        *)
(***************************************************************************)
nb_index_from_inspect(stmt) == WrapU8(value_u8(stmt) - value_u8("INSPECT"))
\* stmt.value_u8() - KeywordStmt::Use.value_u8()
nb_index(stmt) == WrapU8(value_u8(stmt) - value_u8("USE"))

NbTableLen == 8
\* the table F of non-blocking handlers; an index past it aborts
F(idx) ==
    IF idx < NbTableLen
    THEN << "use", "inspect", "describe", "insert", "select", "update",
            "delete", "exists" >>[idx + 1]
    ELSE "out-of-bounds"

\* the entries of F that are panic!("... not implemented")
NbStubs == {"use", "inspect", "describe", "select", "exists", "out-of-bounds"}

\* what dml::insert_resp, update_resp and delete_resp may answer
DmlResults == {"ok", "invalid-syntax", "nil", "overwrite-error"}

(***************************************************************************)
(* The AST nodes the blocking handlers parse from the remaining tokens     *)
(***************************************************************************)
\* a parse that failed with the error kind e, and Err(QueryError::QLInvalidSyntax)
Failed(e) == [ok |-> FALSE, name |-> "none", force |-> FALSE, err |-> e]
SyntaxError == Failed("QLInvalidSyntax")
Node(n, f) == [ok |-> TRUE, name |-> n, force |-> f, err |-> "none"]

\* State::cursor_rounded_eq: the lookahead that answers false at the end of input
cursor_rounded_eq(toks, i, t) == i < Len(toks) /\ toks[i + 1] = t

\* DropSpace::parse: <ident> [force]; the answer and the cursor it leaves
DropSpace_parse(toks) ==
    IF Len(toks) > 0 /\ is_ident(toks[1])
    THEN LET force == cursor_rounded_eq(toks, 1, TokForce)
         IN  [node |-> Node(toks[1].v, force), cursor |-> 1 + B2U(force)]
    ELSE [node |-> SyntaxError, cursor |-> 0]

\* ASTNode::from_state with MUST_USE_FULL_TOKEN_RANGE: leftover tokens fail the parse
from_state_full_range(r, toks) ==
    IF r.node.ok /\ r.cursor = Len(toks) THEN r.node ELSE SyntaxError

\* State::try_entity_ref_result: the entity <space.model> of the DDL grammar, an
\* identifier, `.` and an identifier, and the cursor past it; anything else is an
\* error of the parse, of kind invalid-syntax
try_entity_ref_result(toks) ==
    IF Len(toks) >= 3 /\ is_ident(toks[1]) /\ toks[2] = TokPeriod /\ is_ident(toks[3])
    THEN [ok |-> TRUE, name |-> <<toks[1].v, toks[3].v>>, cursor |-> 3, err |-> "none"]
    ELSE [ok |-> FALSE, name |-> <<>>, cursor |-> 0, err |-> "QLInvalidSyntax"]

\* DropModel::parse: <entity> [force]; `?` returns the error of the entity
DropModel_parse_force_unchecked(toks) ==
    LET e == try_entity_ref_result(toks)
    IN  IF e.ok
        THEN [node |-> Node(e.name, e.cursor < Len(toks)),
              cursor |-> e.cursor + B2U(e.cursor < Len(toks))]
        ELSE [node |-> Failed(e.err), cursor |-> e.cursor]
DropModel_parse(toks) ==
    LET e == try_entity_ref_result(toks)
        force == cursor_rounded_eq(toks, e.cursor, TokForce)
    IN  IF e.ok
        THEN [node |-> Node(e.name, force), cursor |-> e.cursor + B2U(force)]
        ELSE [node |-> Failed(e.err), cursor |-> e.cursor]

\* the tokens of toks from (one-based) position i on are exactly those of clause
ClauseAt(toks, i, clause) ==
    Len(toks) = i - 1 + Len(clause) /\ SubSeq(toks, i, Len(toks)) = clause

\* CreateSpace: <ident> [WITH <dict>]; the queries hold no WITH clause
CreateSpace_parse(toks) ==
    IF Len(toks) > 0 /\ is_ident(toks[1])
    THEN [node |-> Node(toks[1].v, FALSE), cursor |-> 1]
    ELSE [node |-> SyntaxError, cursor |-> 0]

\* AlterSpace: <ident> WITH <dict>; the one dictionary of the queries is the empty one
AlterSpace_parse(toks) ==
    IF Len(toks) > 0 /\ is_ident(toks[1])
       /\ ClauseAt(toks, 2, <<TokWith, TokOpenBrace, TokCloseBrace>>)
    THEN [node |-> Node(toks[1].v, FALSE), cursor |-> Len(toks)]
    ELSE [node |-> SyntaxError, cursor |-> 0]

\* the field list of the queries: ( PRIMARY <ident> : <typekw> )
IsFieldList(clause) ==
    /\ Len(clause) = 6
    /\ clause[1] = TokOpenParen /\ clause[2] = TokPrimary /\ is_ident(clause[3])
    /\ clause[4] = TokColon /\ clause[5].k = "ty" /\ clause[6] = TokCloseParen
\* the ALTER MODEL clause of the queries: REMOVE <ident>
IsAlterClause(clause) ==
    Len(clause) = 2 /\ clause[1] = TokRemove /\ is_ident(clause[2])

\* CreateModel: <space.model> ( <fieldspec>, ... ), and
\* AlterModel: <space.model> (ADD|REMOVE|UPDATE) ...
ModelClause_parse(toks, IsClause(_)) ==
    LET e == try_entity_ref_result(toks)
    IN  IF e.ok /\ IsClause(SubSeq(toks, e.cursor + 1, Len(toks)))
        THEN [node |-> Node(e.name, FALSE), cursor |-> Len(toks)]
        ELSE [node |-> SyntaxError, cursor |-> e.cursor]
CreateModel_parse(toks) == ModelClause_parse(toks, IsFieldList)
AlterModel_parse(toks) == ModelClause_parse(toks, IsAlterClause)

\* the entity of a model's node as one name: `space.model`
entity_name(e) == e[1] \o "." \o e[2]
entity_node(node) ==
    IF node.ok THEN Node(entity_name(node.name), node.force) ELSE node

\* the node a blocking handler parses from the tokens after SPACE or MODEL
parse_node(h, toks) ==
    CASE h = "create_space" -> from_state_full_range(CreateSpace_parse(toks), toks)
      [] h = "alter_space" -> from_state_full_range(AlterSpace_parse(toks), toks)
      [] h = "drop_space" -> from_state_full_range(DropSpace_parse(toks), toks)
      [] h = "create_model" ->
            entity_node(from_state_full_range(CreateModel_parse(toks), toks))
      [] h = "alter_model" ->
            entity_node(from_state_full_range(AlterModel_parse(toks), toks))
      [] h = "drop_model" ->
            entity_node(from_state_full_range(DropModel_parse(toks), toks))
      [] OTHER -> SyntaxError

\* the names a handler's node can carry: a space handler names a space, a model
\* handler the entity `space.model`; each part is a name a client sent, when the
\* released tokens are still intact, or whatever bytes the memory holds by then
GarbageEntities(h) ==
    IF h \in {"create_model", "alter_model", "drop_model"}
    THEN {entity_name(<<a, b>>) : a \in AnyNames, b \in AnyNames}
    ELSE AnyNames

\* what a parse of released memory may give: an error, or any node of the
\* handler: the node of the tokens as they were sent, when the memory is not
\* reused, or a node of the bytes that replaced them
GarbageNodes(h) ==
    {SyntaxError}
        \cup {Node(n, f) : n \in GarbageEntities(h),
                           f \in (IF h \in {"drop_space", "drop_model"}
                                  THEN BOOLEAN ELSE {FALSE})}

\* the handlers of BLK_EXEC that are a transactional_exec_* of Space or Model
DDLHandlers ==
    {"create_space", "alter_space", "drop_space", "create_model", "alter_model", "drop_model"}

\* a drop without FORCE fails on an object that is not empty; the models of a space
\* and the rows of a model are not part of the state, so the object may be either
NonEmptyOnDrop(ast) == IF ast.force THEN {} ELSE {"non-empty-on-drop"}

\* the preconditions of a handler, verified under the GlobalNS lock in read mode:
\* "ok", or the error of the precondition that fails; a model, which the state does
\* not hold, may be there or not
verify(h, ast, sp) ==
    LET present == st_contains(sp, ast.name)
    IN  CASE h = "create_space" -> IF present THEN {"already-exists"} ELSE {"ok"}
          [] h = "alter_space" -> IF present THEN {"ok"} ELSE {"does-not-exist"}
          [] h = "drop_space" ->
                IF present THEN {"ok"} \cup NonEmptyOnDrop(ast) ELSE {"does-not-exist"}
          [] h = "create_model" -> {"ok", "already-exists", "does-not-exist"}
          [] h = "alter_model" -> {"ok", "does-not-exist"}
          [] h = "drop_model" -> {"ok", "does-not-exist"} \cup NonEmptyOnDrop(ast)

\* the commit of a handler under the write guard, on the namespace as it is then: the
\* space is installed with st_insert and removed with st_delete, and the statement
\* fails when the index refuses; the possible answers, each with the spaces it leaves
commit(h, ast, sp, c) ==
    CASE h = "create_space" ->
            LET r == st_insert(sp, ast.name, c)
            IN  {[map |-> r.map, res |-> IF r.ok THEN "ok" ELSE "already-exists"]}
      [] h = "drop_space" ->
            LET r == st_delete(sp, ast.name)
            IN  {[map |-> r.map, res |-> IF r.ok THEN "ok" ELSE "does-not-exist"]}
      [] h = "alter_space" ->
            {[map |-> sp,
              res |-> IF st_contains(sp, ast.name) THEN "ok" ELSE "does-not-exist"]}
      [] h = "create_model" ->
            {[map |-> sp, res |-> r] : r \in {"ok", "already-exists", "does-not-exist"}}
      [] OTHER -> {[map |-> sp, res |-> r] : r \in {"ok", "does-not-exist"}}

(***************************************************************************)
(* Actions of a connection's dispatcher                                    *)
(***************************************************************************)
\* the server process runs: no worker took a memory fault, which kills it with
\* every task and worker in it
Running == \A c \in Conns : worker[c].pc # "fault"

\* a query arrives and is lexed into the token buffer
Receive(c, q) ==
    /\ Running
    /\ conn[c].pc = "idle"
    /\ q \in QueriesOf(workload[c])
    /\ conn' = [conn EXCEPT ![c] =
                   [FreshConn EXCEPT !.pc = "received", !.tokens = q, !.alive = TRUE]]
    /\ UNCHANGED <<worker, spaces, guard, wins, workload, codec, fmap, tagio, lists,
                   index, libVars>>

\* dispatch_to_executor up to cursor_ahead
Classify(c) ==
    /\ Running
    /\ conn[c].pc = "received"
    /\ LET t == conn[c]
           stmt == expect_statement(t.tokens, t.cursor)
       IN  conn' = [conn EXCEPT ![c] =
                IF stmt = "panic"
                THEN [t EXCEPT !.pc = "aborted", !.outcome = "panic", !.alive = FALSE]
                ELSE IF stmt = "none"
                THEN [t EXCEPT !.pc = "done", !.outcome = "expected-statement",
                               !.alive = FALSE]
                ELSE [t EXCEPT !.pc = "classify", !.stmt = stmt, !.cursor = t.cursor + 1]]
    /\ UNCHANGED <<worker, spaces, guard, wins, workload, codec, fmap, tagio, lists,
                   index, libVars>>

\* run_blocking_stmt up to the await
run_blocking_stmt(c) ==
    LET t == conn[c]
        cur == current(t.tokens, t.cursor)
    IN  /\ worker[c].pc = "none"
        /\ IF Len(cur) < 2
           THEN \* state.current()[1] is out of bounds: the task aborts
                /\ conn' = [conn EXCEPT ![c] =
                              [t EXCEPT !.pc = "aborted", !.outcome = "panic",
                                        !.route = "pool", !.alive = FALSE]]
                /\ UNCHANGED worker
           ELSE /\ conn' = [conn EXCEPT ![c] =
                              after_spawn([t EXCEPT !.cursor = t.cursor + 1,
                                                    !.route = "pool"])]
                /\ worker' = [worker EXCEPT ![c] =
                     [NoWorker EXCEPT
                        !.pc = "spawned",
                        !.fc = blk_index(t.stmt, cur[1], cur[2]),
                        !.ptr = t.cursor + 1,
                        !.len = Len(t.tokens) - (t.cursor + 1),
                        !.absent = ~st_contains(spaces, cur[2].v)]]
        /\ UNCHANGED <<spaces, guard, wins, workload, codec, fmap, tagio, lists, index,
                       libVars>>

\* run_nb: the handler runs on the calling task
run_nb(c) ==
    LET t == conn[c]
        h == F(nb_index(t.stmt))
    IN  /\ \E r \in (IF h \in NbStubs THEN {"panic"} ELSE DmlResults) :
              conn' = [conn EXCEPT ![c] =
                         [t EXCEPT !.pc = IF r = "panic" THEN "aborted" ELSE "done",
                                   !.outcome = r, !.route = "inline", !.handler = h,
                                   !.alive = FALSE]]
        /\ UNCHANGED <<worker, spaces, guard, wins, workload, codec, fmap, tagio, lists,
                       index, libVars>>

Dispatch(c) ==
    /\ Running
    /\ conn[c].pc = "classify"
    /\ \/ dispatch_route(conn[c].stmt) = "pool" /\ run_blocking_stmt(c)
       \/ dispatch_route(conn[c].stmt) = "inline" /\ run_nb(c)

\* the await completes: r.unwrap() gives the worker's result, or aborts on its panic
Join(c) ==
    /\ Running
    /\ conn[c].pc = "dispatched"
    /\ worker[c].pc = "finished"
    /\ LET r == worker[c].result
       IN  conn' = [conn EXCEPT ![c] =
                      [@ EXCEPT !.pc = IF r = "panic" THEN "aborted" ELSE "done",
                                !.outcome = r, !.handler = worker[c].handler,
                                !.alive = FALSE, !.absent = worker[c].absent]]
    /\ worker' = [worker EXCEPT ![c] = NoWorker]
    /\ UNCHANGED <<spaces, guard, wins, workload, codec, fmap, tagio, lists, index, libVars>>

\* the response is written; the task waits for the next query
Respond(c) ==
    /\ Running
    /\ conn[c].pc = "done"
    /\ conn' = [conn EXCEPT ![c] = FreshConn]
    /\ UNCHANGED <<worker, spaces, guard, wins, workload, codec, fmap, tagio, lists,
                   index, libVars>>

\* the transport drops: the per-connection task is cancelled at a suspension point
\* and its locals, the token buffer among them, are released
Cancel(c) ==
    /\ Running
    /\ workload[c] # "none"
    /\ conn[c].pc \in {"idle", "dispatched", "done"}
    /\ conn' = [conn EXCEPT ![c] = [FreshConn EXCEPT !.pc = "cancelled"]]
    /\ worker' = [worker EXCEPT ![c].absent = FALSE]
    /\ UNCHANGED <<spaces, guard, wins, workload, codec, fmap, tagio, lists, index, libVars>>

(***************************************************************************)
(* Actions of a blocking worker (the closure given to spawn_blocking)      *)
(***************************************************************************)
Finish(w, r) == [w EXCEPT !.pc = "finished", !.result = r, !.ast = "none"]
\* a read through a dangling pointer hits unmapped memory: SIGSEGV
Fault(w) == [w EXCEPT !.pc = "fault", !.result = "fault", !.ast = "none"]
Cap2(n) == IF n > 2 THEN 2 ELSE n

\* BLK_EXEC[fc](c_glob, tokens): slot 0 answers unknown-statement, sysctl is todo!(),
\* the others run call(): the node is parsed from the raw token slice; over released
\* tokens the parse gives a node of GarbageNodes, or a read of it faults
WorkerEnter(c) ==
    /\ Running
    /\ worker[c].pc = "spawned"
    /\ LET w == worker[c]
           h == BLK_EXEC(w.fc)
           wh == [w EXCEPT !.handler = h]
           wr == [wh EXCEPT !.uaf = ~conn[c].alive]
       IN  CASE h = "unknown" ->
                  worker' = [worker EXCEPT ![c] = Finish(wh, "unknown-statement")]
             [] h = "sysctl" ->
                  worker' = [worker EXCEPT ![c] = Finish(wh, "panic")]
             [] OTHER ->
                  \/ \E node \in (IF conn[c].alive
                                  THEN {parse_node(h, SubSeq(conn[c].tokens, w.ptr + 1,
                                                             w.ptr + w.len))}
                                  ELSE GarbageNodes(h)) :
                        worker' = [worker EXCEPT ![c] =
                                     IF node.ok
                                     THEN [wr EXCEPT !.pc = "parsed", !.ast = node]
                                     ELSE Finish(wr, "invalid-syntax")]
                  \/ /\ ~conn[c].alive
                     /\ worker' = [worker EXCEPT ![c] = Fault(wr)]
    /\ UNCHANGED <<conn, spaces, guard, wins, workload, codec, fmap, tagio, lists, index,
                   libVars>>

\* the GlobalNS lock in read mode: granted unless a writer holds the lock
acquire_read(g) == g = 0

acquire_guard_unchecked(g, c) == TRUE
\* the GlobalNS lock in write mode, the guard of a schema change: granted to one
\* worker at a time
acquire_guard(g, c) == g = 0

\* transactional_exec_*, first part: the preconditions are verified under the
\* GlobalNS lock in read mode, which is held for the check only; the name of a
\* node parsed from released tokens is a dangling slice, and the first read of it
\* can fault
WorkerVerify(c) ==
    /\ Running
    /\ worker[c].pc = "parsed"
    /\ \/ /\ worker[c].uaf
          /\ worker' = [worker EXCEPT ![c] = Fault(@)]
       \/ /\ acquire_read(guard)
          /\ \E r \in verify(worker[c].handler, worker[c].ast, spaces) :
                worker' = [worker EXCEPT ![c] =
                             IF r = "ok" THEN [@ EXCEPT !.pc = "verified"]
                             ELSE Finish(@, r)]
    /\ UNCHANGED <<conn, spaces, guard, wins, workload, codec, fmap, tagio, lists, index,
                   libVars>>

\* second part: the worker waits for the lock in write mode and takes it
WorkerUpgrade(c) ==
    /\ Running
    /\ worker[c].pc = "verified"
    /\ acquire_guard(guard, c)
    /\ guard' = c
    /\ worker' = [worker EXCEPT ![c].pc = "locked"]
    /\ UNCHANGED <<conn, spaces, wins, workload, codec, fmap, tagio, lists, index, libVars>>

\* third part, under the write guard: the change is journalled and applied, the
\* guard released; wins counts the CREATE SPACE statements answered ok for a name
\* since the name was last dropped
WorkerCommit(c) ==
    /\ Running
    /\ worker[c].pc = "locked"
    /\ LET w == worker[c]
           n == w.ast.name
       IN  \E r \in commit(w.handler, w.ast, spaces, c) :
              /\ spaces' = r.map
              /\ wins' = IF r.res = "ok" /\ w.handler = "create_space"
                         THEN [wins EXCEPT ![n] = Cap2(@ + 1)]
                         ELSE IF r.res = "ok" /\ w.handler = "drop_space"
                         THEN [wins EXCEPT ![n] = 0]
                         ELSE wins
              /\ worker' = [worker EXCEPT ![c] = Finish(@, r.res)]
    /\ guard' = 0
    /\ UNCHANGED <<conn, workload, codec, fmap, tagio, lists, index, libVars>>

\* the worker of a cancelled connection ran to completion; its result is dropped
WorkerReap(c) ==
    /\ Running
    /\ worker[c].pc = "finished"
    /\ conn[c].pc = "cancelled"
    /\ worker' = [worker EXCEPT ![c] = NoWorker]
    /\ UNCHANGED <<conn, spaces, guard, wins, workload, codec, fmap, tagio, lists, index,
                   libVars>>

(***************************************************************************)
(* The generic dictionary codec (storage/v1/inf/map.rs)                    *)
(*                                                                         *)
(* A u64 is kept as its low three bytes' value and its five high bytes, so *)
(* that every 8-byte field of an input is represented exactly.             *)
(***************************************************************************)
\* longest list inside an encoded dictionary
MaxListLen == 2
\* most entries of an encoded dictionary
MaxEntries == 2

Byte == 0..255
ZeroHi == <<0, 0, 0, 0, 0>>
U64(n) == [lo |-> n, hi |-> ZeroHi]
IsSmall(q) == q.hi = ZeroHi

\* u64::to_le_bytes / EndianQW::u64_bytes_le
to_le_bytes(q) ==
    <<q.lo % 256, (q.lo \div 256) % 256, (q.lo \div 65536) % 256>> \o q.hi
u64_bytes_le(n) == to_le_bytes(U64(n))

\* u64::from_le_bytes
from_le_bytes(b) ==
    [lo |-> b[1] + 256 * b[2] + 65536 * b[3], hi |-> SubSeq(b, 4, 8)]

\* TagClass, by its integer value
TagClassValue(cls) ==
    CASE cls = "Bool" -> 0 [] cls = "UnsignedInt" -> 1 [] cls = "SignedInt" -> 2
      [] cls = "Float" -> 3 [] cls = "Bin" -> 4 [] cls = "Str" -> 5 [] cls = "List" -> 6

TagClassOf(v) ==
    CASE v = 0 -> "Bool" [] v = 1 -> "UnsignedInt" [] v = 2 -> "SignedInt"
      [] v = 3 -> "Float" [] v = 4 -> "Bin" [] v = 5 -> "Str" [] v = 6 -> "List"

\* PersistDictEntryDscr: Null=0, Bool=1, UnsignedInt=2, SignedInt=3, Float=4, Bin=5,
\* Str=6, List=7, Dict=8
DscrNull == 0
DscrBool == 1
DscrUnsignedInt == 2
DscrSignedInt == 3
DscrFloat == 4
DscrBin == 5
DscrStr == 6
DscrList == 7
DscrDict == 8

\* PersistDictEntryDscr::translate_from_class and ::into_class
translate_from_class(cls) == TagClassValue(cls) + 1
into_class(dscr) == TagClassOf(dscr - 1)

\* Datacell: the class of its tag, whether it is initialised, and its payload,
\* of which the class says which part is read
Cell(cls, init, b, q, s, l) ==
    [cls |-> cls, init |-> init, b |-> b, q |-> q, s |-> s, l |-> l]
DcNull == Cell("Bool", FALSE, FALSE, U64(0), <<>>, <<>>)
new_bool(b) == Cell("Bool", TRUE, b, U64(0), <<>>, <<>>)
new_qw(q, cls) == Cell(cls, TRUE, FALSE, q, <<>>, <<>>)
new_str(s) == Cell("Str", TRUE, FALSE, U64(0), s, <<>>)
new_bin(s) == Cell("Bin", TRUE, FALSE, U64(0), s, <<>>)
new_list(l) == Cell("List", TRUE, FALSE, U64(0), <<>>, l)
read_bool(dc) == dc.b
read_uint(dc) == dc.q
read_bin(dc) == dc.s
read_list(dc) == dc.l
is_null(dc) == ~dc.init
is_init(dc) == dc.init

\* DictEntryGeneric
EData(dc) == [t |-> "data", dc |-> dc, m |-> <<>>]
EMap(m) == [t |-> "map", dc |-> DcNull, m |-> m]

RECURSIVE Flatten(_)
Flatten(ss) == IF ss = <<>> THEN <<>> ELSE Head(ss) \o Flatten(Tail(ss))

\* encode_element (inside enc_entry): the value bytes of a datacell
RECURSIVE encode_element(_)
encode_element(dc) ==
    CASE dc.cls = "Bool" -> IF is_init(dc) THEN <<B2U(read_bool(dc))>> ELSE <<>>
      [] dc.cls \in {"UnsignedInt", "SignedInt", "Float"} -> to_le_bytes(read_uint(dc))
      [] dc.cls \in {"Str", "Bin"} -> u64_bytes_le(Len(read_bin(dc))) \o read_bin(dc)
      [] dc.cls = "List" ->
            LET lst == read_list(dc)
            IN  u64_bytes_le(Len(lst))
                    \o Flatten([i \in 1..Len(lst) |-> encode_element(lst[i])])

\* GenericDictEntryMD::encode's first field, as entry_md_enc writes it
entry_md_enc(key) == u64_bytes_le(Len(key))

\* enc_dict_into_buffer with GenericDictSpec (ENC_COUPLED): a dictionary is given
\* in the order its map iterates, as a sequence of <<key, entry>>
RECURSIVE enc_dict_into_buffer(_)
enc_entry(key, val) ==
    IF val.t = "map"
    THEN <<DscrDict>> \o key \o enc_dict_into_buffer(val.m)
    ELSE <<translate_from_class(val.dc.cls) * B2U(~is_null(val.dc))>>
            \o key \o encode_element(val.dc)
enc_dict_into_buffer(map) ==
    u64_bytes_le(Len(map))
        \o Flatten([i \in 1..Len(map) |->
                        entry_md_enc(map[i][1]) \o enc_entry(map[i][1], map[i][2])])

\* BufferedScanner over a buffer and a cursor (bytes consumed so far)
has_left(buf, pos, n) == Len(buf) - pos >= n
has_left_usize(buf, pos, q) == IsSmall(q) /\ has_left(buf, pos, q.lo)
eof(buf, pos) == Len(buf) - pos = 0
next_byte(buf, pos) == buf[pos + 1]
next_u64_le(buf, pos) == from_le_bytes(SubSeq(buf, pos + 1, pos + 8))
next_chunk_variable(buf, pos, n) == SubSeq(buf, pos + 1, pos + n)

\* core::str::from_utf8(..).is_ok()
IsCont(b) == b >= 128 /\ b <= 191
RECURSIVE from_utf8_is_ok(_)
from_utf8_is_ok(b) ==
    IF b = <<>> THEN TRUE
    ELSE LET x == b[1]
             n == Len(b)
             cont(i) == i <= n /\ IsCont(b[i])
             rest(k) == from_utf8_is_ok(SubSeq(b, k + 1, n))
         IN  CASE x <= 127 -> rest(1)
               [] x >= 194 /\ x <= 223 -> cont(2) /\ rest(2)
               [] x = 224 -> n >= 2 /\ b[2] >= 160 /\ b[2] <= 191 /\ cont(3) /\ rest(3)
               [] x = 237 -> n >= 2 /\ b[2] >= 128 /\ b[2] <= 159 /\ cont(3) /\ rest(3)
               [] x >= 225 /\ x <= 239 /\ x # 237 -> cont(2) /\ cont(3) /\ rest(3)
               [] x = 240 ->
                    n >= 2 /\ b[2] >= 144 /\ b[2] <= 191 /\ cont(3) /\ cont(4) /\ rest(4)
               [] x >= 241 /\ x <= 243 -> cont(2) /\ cont(3) /\ cont(4) /\ rest(4)
               [] x = 244 ->
                    n >= 2 /\ b[2] >= 128 /\ b[2] <= 143 /\ cont(3) /\ cont(4) /\ rest(4)
               [] OTHER -> FALSE

\* outcomes of a decoding step: a value and the cursor after it, or a failure.
\* "none" is Option::None; "panic" is unreachable!/capacity overflow; "oob" is a
\* scanner read past the end of the buffer; "overflow" is the panic of a checked
\* usize addition; "abort" is the process aborting on a refused allocation, with
\* the cursor where the allocation was asked for
DecOk(v, pos) == [k |-> "ok", v |-> v, pos |-> pos]
DecFail(kind, pos) == [k |-> kind, v |-> FALSE, pos |-> pos]
Fatal == {"panic", "oob", "overflow", "abort"}

\* size_of::<Datacell>() in bytes, which the layout of the build decides
CellSizes == {32, 40, 48}

\* what the decoder's outcome depends on besides its input: whether the allocator
\* grants the memory it is asked for (a refused allocation aborts the process, and
\* any request can be refused, so the first one is), whether the build checks
\* integer overflow (it panics) or wraps, whether idx_init_cap reserves the table
\* it is asked for, and the size of a cell
Envs == [alloc : BOOLEAN, overflow_checks : BOOLEAN, prealloc : BOOLEAN, cell : CellSizes]

\* TagUnique chosen by decode_element for the quadword descriptors
dec_unique(dscr) ==
    <<"UnsignedInt", "SignedInt", "Illegal", "Illegal">>[(dscr - 2) + 1]

\* the CUTag's unique that decode_element gives a value it read under descriptor
\* dscr: its own table for the quadwords, the constructor's tag for the others
decoded_unique(dscr) ==
    IF dscr \in {DscrUnsignedInt, DscrSignedInt, DscrFloat}
    THEN dec_unique(dscr)
    ELSE <<"Illegal", "Illegal", "-", "-", "-", "Bin", "Str", "Illegal">>[dscr + 1]

\* a usize as its eight bytes, the most significant first
to_be_bytes(q) == [i \in 1..8 |-> to_le_bytes(q)[9 - i]]
isize_MAX == <<127, 255, 255, 255, 255, 255, 255, 255>>

\* a > b, for byte strings of one length, the most significant byte first
RECURSIVE bytes_gt(_, _)
bytes_gt(a, b) ==
    IF a = <<>> THEN FALSE
    ELSE IF a[1] # b[1] THEN a[1] > b[1]
    ELSE bytes_gt(Tail(a), Tail(b))

\* bytes / d by long division, carrying the remainder rem
RECURSIVE div_bytes(_, _, _)
div_bytes(bytes, d, rem) ==
    IF bytes = <<>> THEN <<>>
    ELSE <<(rem * 256 + bytes[1]) \div d>>
            \o div_bytes(Tail(bytes), d, (rem * 256 + bytes[1]) % d)

\* Vec::with_capacity(list_len): a request of more than isize::MAX bytes, that is
\* of more than isize::MAX / size_of::<Datacell>() elements, panics
capacity_overflow(env, list_len) ==
    bytes_gt(to_be_bytes(list_len), div_bytes(isize_MAX, env.cell, 0))
\* a request the allocator may refuse: one of any size but zero, for which
\* Vec::with_capacity and to_owned do not allocate
alloc_may_fail(list_len) == list_len # U64(0)
\* the allocation of n elements is refused
alloc_refused(env, n) == alloc_may_fail(n) /\ ~env.alloc

\* HashMap::with_capacity(size): the table has next_power_of_two(size * 8 / 7)
\* buckets, each an entry of 64 to 127 bytes (a Box<str> and a DictEntryGeneric)
\* and a control byte; 2^57 buckets or more are over isize::MAX bytes, which is
\* any size above 7 * 2^53, and panics
table_capacity_overflow(size) ==
    bytes_gt(to_be_bytes(size), <<0, 224, 0, 0, 0, 0, 0, 0>>)

\* EXPECT_ATLEAST[min(dscr, 3)]
EXPECT_ATLEAST(dscr) == <<0, 1, 8, 8>>[(IF dscr < 3 THEN dscr ELSE 3) + 1]

\* md.klen + EXPECT_ATLEAST[..] wraps past usize::MAX
lbound_overflows(klen, dscr) ==
    klen.hi = <<255, 255, 255, 255, 255>> /\ klen.lo + EXPECT_ATLEAST(dscr) >= 16777216

pretest_entry_metadata(buf, pos) == has_left(buf, pos, 9)
pretest_entry_data(buf, pos, klen, dscr) ==
    (IsSmall(klen) /\ has_left(buf, pos, klen.lo + EXPECT_ATLEAST(dscr)))
        /\ dscr <= DscrDict
\* the same when the sum wrapped: lbound_rem is what is left of it modulo 2^64
pretest_entry_data_wrapped(buf, pos, klen, dscr) ==
    has_left(buf, pos, klen.lo + EXPECT_ATLEAST(dscr) - 16777216) /\ dscr <= DscrDict

\* MapType::idx_init_cap(size): an empty map, with the table for `size` entries
\* reserved when the index preallocates; the reservation can panic or abort
idx_init_cap(env, size) ==
    IF env.prealloc /\ table_capacity_overflow(size) THEN "panic"
    ELSE IF env.prealloc /\ alloc_refused(env, size) THEN "abort"
    ELSE "ok"
\* HashMap::entry on an absent key reserves room for it: the table of an index
\* that did not preallocate is allocated for its first entry (it grows again
\* later, which a run whose allocations are refused does not reach)
table_alloc_refused(env, n) == ~env.prealloc /\ n = 0 /\ alloc_refused(env, U64(1))
\* the generic dictionary as a map: st_len, st_insert
dg_st_len(m) == Cardinality(DOMAIN m)
dg_st_insert(m, key, val) == st_insert(m, key, val)

\* v.len() < list_len and dict.st_len() != size, against a usize
len_lt(n, q) == ~IsSmall(q) \/ n < q.lo
len_eq_unchecked(n, q) == TRUE
len_eq(n, q) == IsSmall(q) /\ n = q.lo

RECURSIVE decode_element(_, _, _, _, _), dec_list_items(_, _, _, _, _),
          dec_dict(_, _, _), dec_entries(_, _, _, _, _)

\* the List arm's while loop: each item is read as a descriptor byte, then a value
dec_list_items(env, buf, pos, list_len, v) ==
    IF ~eof(buf, pos) /\ len_lt(Len(v), list_len)
    THEN LET dscr == next_byte(buf, pos)
         IN  IF dscr > DscrDict THEN DecFail("none", pos + 1)
             ELSE LET r == decode_element(env, buf, pos + 1, dscr, FALSE)
                  IN  IF r.k = "ok"
                      THEN dec_list_items(env, buf, r.pos, list_len, Append(v, r.v.dc))
                      ELSE r
    ELSE IF len_eq(Len(v), list_len)
         THEN DecOk(EData(new_list(v)), pos)
         ELSE DecFail("none", pos)

\* decode_element (inside dec_val)
decode_element(env, buf, pos, dscr, dg_top_element) ==
    CASE dscr = DscrNull -> DecOk(EData(DcNull), pos)
      [] dscr = DscrBool ->
            IF ~has_left(buf, pos, 1) THEN DecFail("oob", pos)
            ELSE DecOk(EData(new_bool(next_byte(buf, pos) = 1)), pos + 1)
      [] dscr \in {DscrUnsignedInt, DscrSignedInt, DscrFloat} ->
            IF ~has_left(buf, pos, 8) THEN DecFail("oob", pos)
            ELSE DecOk(EData(new_qw(next_u64_le(buf, pos), into_class(dscr))), pos + 8)
      [] dscr \in {DscrStr, DscrBin} ->
            IF ~has_left(buf, pos, 8) THEN DecFail("oob", pos)
            ELSE LET slc_len == next_u64_le(buf, pos)
                     slc == next_chunk_variable(buf, pos + 8, slc_len.lo)
                 IN  IF ~has_left_usize(buf, pos + 8, slc_len)
                     THEN DecFail("none", pos + 8)
                     ELSE IF dscr = DscrStr /\ ~from_utf8_is_ok(slc)
                          THEN DecFail("none", pos + 8 + slc_len.lo)
                          ELSE IF alloc_refused(env, slc_len)
                          THEN DecFail("abort", pos + 8 + slc_len.lo)
                          ELSE DecOk(EData(IF dscr = DscrStr THEN new_str(slc)
                                                                 ELSE new_bin(slc)),
                                     pos + 8 + slc_len.lo)
      [] dscr = DscrList ->
            IF ~has_left(buf, pos, 8) THEN DecFail("oob", pos)
            ELSE LET list_len == next_u64_le(buf, pos)
                 IN  IF capacity_overflow(env, list_len) THEN DecFail("panic", pos + 8)
                     ELSE IF alloc_refused(env, list_len)
                     THEN DecFail("abort", pos + 8)
                     ELSE dec_list_items(env, buf, pos + 8, list_len, <<>>)
      [] dscr = DscrDict ->
            IF dg_top_element
            THEN LET r == dec_dict(env, buf, pos)
                 IN  IF r.k = "ok" THEN DecOk(EMap(r.v), r.pos)
                     ELSE IF r.k \in Fatal THEN r
                     ELSE DecFail("none", r.pos)
            ELSE DecFail("panic", pos)

\* dec_dict's while loop with GenericDictSpec: metadata, pretest, key, value, insert
dec_entries(env, buf, pos, size, dict) ==
    IF pretest_entry_metadata(buf, pos) /\ ~len_eq(dg_st_len(dict), size)
    THEN LET klen == next_u64_le(buf, pos)
             dscr == next_byte(buf, pos + 8)
             p == pos + 9
         IN  IF lbound_overflows(klen, dscr) /\ env.overflow_checks
             THEN DecFail("overflow", p)
             ELSE IF lbound_overflows(klen, dscr)
             THEN \* the wrapped bound is at most 7: if the pretest passes, dec_key
                  \* takes a chunk of klen bytes, over isize::MAX, and to_owned
                  \* panics with a capacity overflow
                  IF pretest_entry_data_wrapped(buf, p, klen, dscr)
                  THEN DecFail("panic", p)
                  ELSE DecFail("InternalDecodeStructureCorrupted", p)
             ELSE IF ~pretest_entry_data(buf, p, klen, dscr)
             THEN DecFail("InternalDecodeStructureCorrupted", p)
             ELSE IF alloc_refused(env, klen)
             THEN \* dec_key: the chunk's to_owned
                  DecFail("abort", p + klen.lo)
             ELSE LET _k == next_chunk_variable(buf, p, klen.lo)
                      _v == decode_element(env, buf, p + klen.lo, dscr, TRUE)
                  IN  IF _v.k \in Fatal THEN _v
                      ELSE IF ~from_utf8_is_ok(_k) \/ _v.k # "ok"
                      THEN DecFail("InternalDecodeStructureCorruptedPayload", _v.pos)
                      ELSE IF ~dg_st_insert(dict, _k, _v.v).ok
                      THEN DecFail("InternalDecodeStructureIllegalData", _v.pos)
                      ELSE IF table_alloc_refused(env, dg_st_len(dict))
                      THEN DecFail("abort", _v.pos)
                      ELSE dec_entries(env, buf, _v.pos, size,
                                       dg_st_insert(dict, _k, _v.v).map)
    ELSE IF len_eq(dg_st_len(dict), size)
         THEN DecOk(dict, pos)
         ELSE DecFail("InternalDecodeStructureIllegalData", pos)

\* dec_dict with GenericDictSpec
dec_dict(env, buf, pos) ==
    IF ~has_left(buf, pos, 8)
    THEN DecFail("InternalDecodeStructureCorrupted", pos)
    ELSE IF idx_init_cap(env, next_u64_le(buf, pos)) # "ok"
    THEN DecFail(idx_init_cap(env, next_u64_le(buf, pos)), pos + 8)
    ELSE dec_entries(env, buf, pos + 8, next_u64_le(buf, pos), << >>)

(***************************************************************************)
(* Dictionaries given to the codec                                         *)
(***************************************************************************)
KeyA == <<97>>
KeyB == <<98>>
DictKeys == {KeyA, KeyB}

ScalarCells ==
    { DcNull, new_bool(TRUE), new_bool(FALSE),
      new_qw(U64(1), "UnsignedInt"), new_qw(U64(258), "UnsignedInt"),
      new_qw(U64(7), "SignedInt"), new_qw(U64(0), "Float"),
      new_str(<<97>>), new_str(<<>>), new_bin(<<255>>) }

\* lists hold items of one class
ListItemCells ==
    { {new_bool(TRUE)}, {new_qw(U64(1), "UnsignedInt")},
      {new_str(<<97>>)}, {new_list(<<>>)} }

ListCells ==
    { new_list(v) :
        v \in UNION { [1..n -> S] : n \in 0..MaxListLen, S \in ListItemCells } }

NestedMaps == { <<>>, << <<KeyA, EData(new_qw(U64(1), "UnsignedInt"))>> >> }

DictValues ==
    { EData(dc) : dc \in ScalarCells \cup ListCells } \cup { EMap(m) : m \in NestedMaps }

\* a dictionary in iteration order: distinct keys
DictInputs ==
    { m \in UNION { [1..n -> DictKeys \X DictValues] : n \in 0..MaxEntries } :
        \A i, j \in 1..Len(m) : m[i][1] = m[j][1] => i = j }

\* the map a sequence of entries stands for
RECURSIVE ToMap(_)
ToMap(m) ==
    [ key \in { m[i][1] : i \in 1..Len(m) } |->
        LET val == m[CHOOSE i \in 1..Len(m) : m[i][1] = key][2]
        IN  IF val.t = "map" THEN EMap(ToMap(val.m)) ELSE val ]

\* a list with at least one item somewhere in the dictionary
RECURSIVE HasNonEmptyList(_)
HasNonEmptyList(m) ==
    \E i \in 1..Len(m) :
        LET val == m[i][2]
        IN  IF val.t = "map" THEN HasNonEmptyList(val.m)
            ELSE val.dc.cls = "List" /\ read_list(val.dc) # <<>>

\* a scanner read past the end of the buffer is undefined: the process may fault
\* or go on with whatever the memory holds
OobOutcomes == {"oob-fault", "oob-garbage"}

\* enc_dict_into_buffer::<GenericDictSpec> on the picked dictionary
DictEncode ==
    /\ codec.phase = "input"
    /\ codec' = [codec EXCEPT !.phase = "encoded",
                              !.buf = enc_dict_into_buffer(codec.d)]
    /\ UNCHANGED <<execVars, fmap, tagio, lists, index, libVars>>

\* bytes put in place of an encoded byte, and the longest input decoded
SubstBytes == {0, 1, 2, 7, 8, 9, 255}
MaxInputLen == 64

NoTamper == [kind |-> "none", at |-> 0, byte |-> 0]

\* the dictionaries whose encodings are also decoded after damage
Tamperable(d) ==
    \/ Len(d) <= 1
    \/ \A i \in 1..Len(d) :
            d[i][2] \in {EData(new_qw(U64(1), "UnsignedInt")), EData(new_bool(TRUE))}

\* the stored bytes are cut short before they are read back
DictTruncate ==
    /\ codec.phase = "encoded" /\ codec.tamper = NoTamper /\ Tamperable(codec.d)
    /\ \E n \in 0..(Len(codec.buf) - 1) :
            codec' = [codec EXCEPT !.buf = SubSeq(codec.buf, 1, n),
                                   !.tamper = [kind |-> "trunc", at |-> n, byte |-> 0]]
    /\ UNCHANGED <<execVars, fmap, tagio, lists, index, libVars>>

\* one stored byte is changed before the bytes are read back
DictCorrupt ==
    /\ codec.phase = "encoded" /\ codec.tamper = NoTamper /\ Tamperable(codec.d)
    /\ \E at \in 1..Len(codec.buf), b \in SubstBytes :
            /\ b # codec.buf[at]
            /\ codec' = [codec EXCEPT !.buf = [codec.buf EXCEPT ![at] = b],
                                      !.tamper = [kind |-> "subst", at |-> at, byte |-> b]]
    /\ UNCHANGED <<execVars, fmap, tagio, lists, index, libVars>>

\* dec_dict::<GenericDictSpec> on a scanner over the encoded bytes
DictDecode ==
    /\ codec.phase = "encoded"
    /\ Len(codec.buf) <= MaxInputLen
    /\ \E env \in Envs :
         LET r == dec_dict(env, codec.buf, 0)
         IN  \E o \in (IF r.k = "oob" THEN OobOutcomes ELSE {r.k}) :
                codec' = [codec EXCEPT !.phase = "decoded", !.out = [r EXCEPT !.k = o]]
    /\ UNCHANGED <<execVars, fmap, tagio, lists, index, libVars>>

(***************************************************************************)
(* The tag system (data/tag.rs)                                            *)
(***************************************************************************)
\* TagClass::MAX, the largest discriminant
TagClass_MAX == 6
TagClasses == {"Bool", "UnsignedInt", "SignedInt", "Float", "Bin", "Str", "List"}

\* TagUnique, by its integer value
TagUniques == {"UnsignedInt", "SignedInt", "Bin", "Str", "Illegal"}
TagUniqueValue(u) ==
    CASE u = "UnsignedInt" -> 0 [] u = "SignedInt" -> 1 [] u = "Bin" -> 2
      [] u = "Str" -> 3 [] u = "Illegal" -> 255
TagUniqueOf(v) ==
    CASE v = 0 -> "UnsignedInt" [] v = 1 -> "SignedInt" [] v = 2 -> "Bin"
      [] v = 3 -> "Str" [] v = 255 -> "Illegal"

\* TagSelector, by its integer value 0..13
TagSelectorNames ==
    << "Bool", "UInt8", "UInt16", "UInt32", "UInt64", "SInt8", "SInt16", "SInt32",
       "SInt64", "Float32", "Float64", "Bin", "Str", "List" >>
TagSelectorValue(sel) == (CHOOSE i \in 1..Len(TagSelectorNames) : TagSelectorNames[i] = sel) - 1
TagSelectorOf(v) == TagSelectorNames[v + 1]

\* Option<tag>: a class, a selector and a unique tag, "-" where there is none
NoTag == [some |-> FALSE, class |-> "-", selector |-> "-", unique |-> "-"]
SomeTag(class, selector, unique) ==
    [some |-> TRUE, class |-> class, selector |-> selector, unique |-> unique]

\* TagClass::try_from_raw
TagClass_try_from_raw_below_max(v) ==
    IF v >= TagClass_MAX THEN NoTag ELSE SomeTag(TagClassOf(v), "-", "-")
TagClass_try_from_raw(v) ==
    IF v > TagClass_MAX THEN NoTag ELSE SomeTag(TagClassOf(v), "-", "-")

\* TagClass::tag_unique
TagClass_tag_unique(class) ==
    << "Illegal", "UnsignedInt", "SignedInt", "Illegal", "Bin", "Str", "Illegal" >>
        [TagClassValue(class) + 1]

\* TagSelector::tag_unique
TagSelector_tag_unique_float_as_uint(sel) ==
    << "Illegal", "UnsignedInt", "UnsignedInt", "UnsignedInt", "UnsignedInt",
       "SignedInt", "SignedInt", "SignedInt", "SignedInt", "UnsignedInt", "Illegal",
       "Bin", "Str", "Illegal" >>[TagSelectorValue(sel) + 1]
TagSelector_tag_unique(sel) ==
    << "Illegal", "UnsignedInt", "UnsignedInt", "UnsignedInt", "UnsignedInt",
       "SignedInt", "SignedInt", "SignedInt", "SignedInt", "Illegal", "Illegal",
       "Bin", "Str", "Illegal" >>[TagSelectorValue(sel) + 1]

\* TagSelector::tag_class
TagSelector_tag_class(sel) ==
    << "Bool", "UnsignedInt", "UnsignedInt", "UnsignedInt", "UnsignedInt",
       "SignedInt", "SignedInt", "SignedInt", "SignedInt", "Float", "Float",
       "Bin", "Str", "List" >>[TagSelectorValue(sel) + 1]

\* TagSelector::into_full
into_full(sel) ==
    SomeTag(TagSelector_tag_class(sel), sel, TagSelector_tag_unique(sel))

\* TagUnique::try_from_raw
TagUnique_try_from_raw(raw) ==
    IF raw > 3 THEN NoTag ELSE SomeTag("-", "-", TagUniqueOf(raw))

\* impl DataTag for FullTag, and for CUTag (which has no selector): BOOL, UINT,
\* SINT, FLOAT, BIN, STR, LIST in this order
FullTagConsts ==
    << SomeTag("Bool", "Bool", "Illegal"),
       SomeTag("UnsignedInt", "UInt64", "UnsignedInt"),
       SomeTag("SignedInt", "SInt64", "SignedInt"),
       SomeTag("Float", "Float64", "Illegal"),
       SomeTag("Bin", "Bin", "Bin"),
       SomeTag("Str", "Str", "Str"),
       SomeTag("List", "List", "Illegal") >>
CUTagConsts ==
    << SomeTag("Bool", "-", "Illegal"),
       SomeTag("UnsignedInt", "-", "UnsignedInt"),
       SomeTag("SignedInt", "-", "SignedInt"),
       SomeTag("Float", "-", "Illegal"),
       SomeTag("Bin", "-", "Bin"),
       SomeTag("Str", "-", "Str"),
       SomeTag("List", "-", "Illegal") >>

\* one tag function applied to the raw byte
TagApply(op, res) ==
    /\ tagio.phase = "raw"
    /\ tagio' = [tagio EXCEPT !.phase = "done", !.op = op, !.res = res]
    /\ UNCHANGED <<execVars, codec, fmap, lists, index, libVars>>

TagClassTryFromRaw == TagApply("TagClass::try_from_raw", TagClass_try_from_raw(tagio.raw))
TagUniqueTryFromRaw == TagApply("TagUnique::try_from_raw", TagUnique_try_from_raw(tagio.raw))
\* TagSelector::from_raw is only called on a selector's value
SelectorIntoFull ==
    /\ tagio.raw < Len(TagSelectorNames)
    /\ TagApply("TagSelector::into_full", into_full(TagSelectorOf(tagio.raw)))
FullTagConst ==
    /\ tagio.raw < Len(FullTagConsts)
    /\ TagApply("FullTag", FullTagConsts[tagio.raw + 1])
CUTagConst ==
    /\ tagio.raw < Len(CUTagConsts)
    /\ TagApply("CUTag", CUTagConsts[tagio.raw + 1])

\* the tag functions given every byte
InitTag ==
    /\ ExecAtRest
    /\ ql = Unused /\ memlist = Unused /\ pobj = Unused /\ uarray = Unused /\ client = Unused
    /\ codec = CodecIdle /\ fmap = Unused /\ lists = Unused /\ index = Unused
    /\ \E v \in Byte : tagio = [phase |-> "raw", raw |-> v, op |-> "-", res |-> NoTag]

NextTag ==
    \/ TagClassTryFromRaw
    \/ TagUniqueTryFromRaw
    \/ SelectorIntoFull
    \/ FullTagConst
    \/ CUTagConst

(***************************************************************************)
(* The field map codec (FieldMapSpec of storage/v1/inf/map.rs)             *)
(*                                                                         *)
(* A field is its layers and its nullability; a layer is a selector and a  *)
(* property dictionary, encoded as `u8 selector ; dict(properties)`.       *)
(***************************************************************************)
\* most layers of a field, and most fields of a field map
MaxLayers == 2
MaxFields == 2

Layer(sel, props) == [selector |-> sel, props |-> props]
Field(layers, nullable) == [layers |-> layers, nullable |-> nullable]

\* Layer::pe_obj_hlio_enc
layer_enc(layer) ==
    <<TagSelectorValue(layer.selector)>> \o enc_dict_into_buffer(layer.props)

\* FieldMapSpec::entry_md_enc
fm_entry_md_enc(key, val) ==
    u64_bytes_le(Len(key)) \o to_le_bytes(U64(0)) \o u64_bytes_le(Len(val.layers))
        \o <<B2U(val.nullable)>>

\* FieldMapSpec::enc_key and ::enc_val
fm_enc_key(key) == key
fm_enc_val(val) == Flatten([i \in 1..Len(val.layers) |-> layer_enc(val.layers[i])])

\* enc_dict_into_buffer::<FieldMapSpec> (not ENC_COUPLED), over the map in its
\* declaration order
fm_enc_dict_into_buffer(map) ==
    u64_bytes_le(Len(map))
        \o Flatten([i \in 1..Len(map) |->
                        fm_entry_md_enc(map[i][1], map[i][2])
                            \o fm_enc_key(map[i][1]) \o fm_enc_val(map[i][2])])

\* FieldMapSpec::pretest_entry_metadata and ::pretest_entry_data
fm_pretest_entry_metadata(buf, pos) == has_left(buf, pos, 8 * 3 + 1)
fm_pretest_entry_data(buf, pos, field_id_l) == has_left_usize(buf, pos, field_id_l)

\* Field::pe_obj_hlio_dec: layer_c layers, each a valid selector and its properties
RECURSIVE field_dec_layers(_, _, _, _, _)
\* one layer of it, from its selector byte and its decoded properties
field_dec_layer(env, buf, pos, layer_c, layers, sel, props) ==
    IF sel >= Len(TagSelectorNames) THEN DecFail("none", pos + 1)
    ELSE IF props.k \in Fatal THEN props
    ELSE IF props.k # "ok" THEN DecFail("none", props.pos)
    ELSE field_dec_layers(env, buf, props.pos, layer_c,
                          Append(layers, Layer(TagSelectorOf(sel), props.v)))
field_dec_layers(env, buf, pos, layer_c, layers) ==
    IF len_eq(Len(layers), layer_c) THEN DecOk(layers, pos)
    ELSE IF ~has_left(buf, pos, 1) THEN DecFail("none", pos)
    ELSE field_dec_layer(env, buf, pos, layer_c, layers,
                         next_byte(buf, pos), dec_dict(env, buf, pos + 1))

\* FieldMapSpec::dec_val: the field of the decoded layers `r`
fm_field_of(r, md) ==
    IF r.k # "ok" THEN r
    ELSE IF md.null > 1 \/ ~len_eq(0, md.field_prop_c) THEN DecFail("none", r.pos)
    ELSE DecOk(Field(r.v, md.null = 1), r.pos)
fm_dec_val(env, buf, pos, md) ==
    fm_field_of(field_dec_layers(env, buf, pos, md.field_layer_c, <<>>), md)

\* FieldMapSpec::entry_md_dec
fm_entry_md_dec(buf, pos) ==
    [ field_id_l |-> next_u64_le(buf, pos),
      field_prop_c |-> next_u64_le(buf, pos + 8),
      field_layer_c |-> next_u64_le(buf, pos + 16),
      null |-> next_byte(buf, pos + 24) ]

\* the ordered index: stseq keeps the insertion order
stseq_contains(map, key) == \E i \in 1..Len(map) : map[i][1] = key
stseq_insert(map, key, val) == Append(map, <<key, val>>)

\* dec_dict's while loop with FieldMapSpec
RECURSIVE fm_dec_entries(_, _, _, _, _)
\* the loop's body once the key `_k` and the value `_v` are decoded
fm_dec_entry_insert(env, buf, size, dict, _k, _v) ==
    IF _v.k \in Fatal THEN _v
    ELSE IF ~from_utf8_is_ok(_k) \/ _v.k # "ok"
    THEN DecFail("InternalDecodeStructureCorruptedPayload", _v.pos)
    ELSE IF stseq_contains(dict, _k)
    THEN DecFail("InternalDecodeStructureIllegalData", _v.pos)
    ELSE IF alloc_refused(env, U64(1))
    THEN \* the ordered index allocates the node of an entry
         DecFail("abort", _v.pos)
    ELSE fm_dec_entries(env, buf, _v.pos, size, stseq_insert(dict, _k, _v.v))
\* the loop's body once the entry's metadata `md` is decoded; p is past it
fm_dec_entry(env, buf, p, size, dict, md) ==
    IF ~fm_pretest_entry_data(buf, p, md.field_id_l)
    THEN DecFail("InternalDecodeStructureCorrupted", p)
    ELSE IF alloc_refused(env, md.field_id_l)
    THEN \* dec_key: the chunk's to_owned
         DecFail("abort", p + md.field_id_l.lo)
    ELSE fm_dec_entry_insert(env, buf, size, dict,
                             next_chunk_variable(buf, p, md.field_id_l.lo),
                             fm_dec_val(env, buf, p + md.field_id_l.lo, md))
fm_dec_entries(env, buf, pos, size, dict) ==
    IF fm_pretest_entry_metadata(buf, pos) /\ ~len_eq(Len(dict), size)
    THEN fm_dec_entry(env, buf, pos + 25, size, dict, fm_entry_md_dec(buf, pos))
    ELSE IF len_eq(Len(dict), size)
         THEN DecOk(dict, pos)
         ELSE DecFail("InternalDecodeStructureIllegalData", pos)

\* dec_dict with FieldMapSpec
fm_dec_dict(env, buf, pos) ==
    IF ~has_left(buf, pos, 8)
    THEN DecFail("InternalDecodeStructureCorrupted", pos)
    ELSE IF idx_init_cap(env, next_u64_le(buf, pos)) # "ok"
    THEN DecFail(idx_init_cap(env, next_u64_le(buf, pos)), pos + 8)
    ELSE fm_dec_entries(env, buf, pos + 8, next_u64_le(buf, pos), <<>>)

\* the layers, fields and field maps given to the codec; a map is the sequence of
\* its <<name, field>> in declaration order
LayerInputs ==
    { Layer("UInt64", <<>>),
      Layer("Str", << <<KeyA, EData(new_qw(U64(1), "UnsignedInt"))>> >>),
      Layer("List", << <<KeyB, EMap(<< <<KeyA, EData(new_str(<<97>>))>> >>)>> >>),
      Layer("Bin", << <<KeyA, EData(new_list(<<>>))>> >>),
      Layer("Bool", << <<KeyA, EData(new_list(<<new_qw(U64(1), "UnsignedInt")>>))>> >>) }
FieldInputs ==
    { Field(ls, nullable) :
        ls \in UNION { [1..n -> LayerInputs] : n \in 1..MaxLayers }, nullable \in BOOLEAN }
\* the first field of a map is any of FieldInputs, the others have one layer
FieldMapInputs ==
    LET keyseqs == { ks \in UNION { [1..n -> DictKeys] : n \in 0..MaxFields } :
                        \A i, j \in 1..Len(ks) : ks[i] = ks[j] => i = j }
    IN  UNION { { [i \in 1..Len(ks) |-> <<ks[i], fs[i]>>] :
                    fs \in { f \in [1..Len(ks) -> FieldInputs] :
                                \A i \in 2..Len(ks) : Len(f[i].layers) = 1 } } :
                ks \in keyseqs }

\* a field with its layers' property dictionaries as maps, as the decoder builds it
FieldAsDecoded(f) ==
    Field([i \in 1..Len(f.layers) |->
                Layer(f.layers[i].selector, ToMap(f.layers[i].props))],
          f.nullable)
FieldMapAsDecoded(m) == [i \in 1..Len(m) |-> <<m[i][1], FieldAsDecoded(m[i][2])>>]

\* enc_dict_into_buffer::<FieldMapSpec>
FieldMapEncode ==
    /\ fmap.phase = "input"
    /\ fmap' = [fmap EXCEPT !.phase = "encoded", !.buf = fm_enc_dict_into_buffer(fmap.m)]
    /\ UNCHANGED <<execVars, codec, tagio, lists, index, libVars>>

\* dec_dict::<FieldMapSpec>
FieldMapDecode ==
    /\ fmap.phase = "encoded"
    /\ \E env \in Envs :
         LET r == fm_dec_dict(env, fmap.buf, 0)
         IN  \E o \in (IF r.k = "oob" THEN OobOutcomes ELSE {r.k}) :
                fmap' = [fmap EXCEPT !.phase = "decoded", !.out = [r EXCEPT !.k = o]]
    /\ UNCHANGED <<execVars, codec, tagio, lists, index, libVars>>

InitFieldMap ==
    /\ ExecAtRest
    /\ ql = Unused /\ memlist = Unused /\ pobj = Unused /\ uarray = Unused /\ client = Unused
    /\ codec = CodecIdle /\ tagio = Unused /\ lists = Unused /\ index = Unused
    /\ \E m \in FieldMapInputs :
            fmap = [phase |-> "input", m |-> m, buf |-> <<>>, out |-> DecFail("-", 0)]

NextFieldMap == FieldMapEncode \/ FieldMapDecode

(***************************************************************************)
(* The list actions LSET and LGET (actions/lists/mod.rs)                   *)
(***************************************************************************)
\* clients of the list table
NListClients == 2
ListClients == 1..NListClients
ListNames == {"x", "y"}

\* the arguments after the action's name
LsetArgs == { <<>>, <<"x">>, <<"x", "1">>, <<"x", "2", "1">>, <<"y", "1">> }
LgetArgs ==
    { <<>>, <<"x">>, <<"x", "LEN">>, <<"x", "LIMIT", "1">>, <<"x", "VALUEAT", "0">>,
      <<"x", "VALUEAT", "5">>, <<"y">>, <<"y", "LIMIT", "1">> }

\* responses: a group code, an array of items or an integer
Resp(kind) == [kind |-> kind, items |-> <<>>, n |-> 0]
RespArray(items) == [kind |-> "array", items |-> items, n |-> Len(items)]
RespInt(n) == [kind |-> "int", items |-> <<>>, n |-> n]

\* what a client saw under a name: whether a list was there, and its items
Saw(table, name) ==
    IF name \in DOMAIN table THEN [ex |-> TRUE, items |-> table[name].items]
    ELSE [ex |-> FALSE, items |-> <<>>]
SawNothing == [ex |-> FALSE, items |-> <<>>]

IdleClient ==
    [pc |-> "idle", op |-> "-", args |-> <<>>, absent |-> FALSE, did |-> FALSE,
     seen |-> SawNothing, resp |-> Resp("-")]

\* err_if_len_is!(act, con, lt 1)
err_if_len_lt_1(args) == Len(args) < 1

\* act.map(Data::copy_from_slice).collect(): the items after the list's name
lset_collect_reversed(args) == [i \in 1..(Len(args) - 1) |-> args[Len(args) + 1 - i]]
lset_collect(args) == Tail(args)

\* the response of lset for `did`
lset_response(did) == IF did THEN Resp("okay") ELSE Resp("overwrite-error")

\* Coremap::fresh_entry: the vacant slot of an absent key, or none
fresh_entry_is_some(table, name) == name \notin DOMAIN table

\* lget's answer for the arguments after the list's name
lget_response(table, name, rest) ==
    IF rest = <<>>
    THEN IF name \in DOMAIN table THEN RespArray(table[name].items) ELSE Resp("nil")
    ELSE IF rest[1] = "LEN"
         THEN IF name \in DOMAIN table THEN RespInt(Len(table[name].items))
              ELSE Resp("nil")
         ELSE Resp("unknown-action")

ListStep(c, rec) == [lists EXCEPT !.cl[c] = rec]

\* a client sends LSET with its arguments
LsetStart(c) ==
    /\ lists.cl[c].pc = "idle"
    /\ \E args \in LsetArgs :
            lists' = ListStep(c, [IdleClient EXCEPT
                        !.pc = "start", !.op = "lset", !.args = args,
                        !.absent = args # <<>> /\ args[1] \notin DOMAIN lists.table])
    /\ UNCHANGED <<execVars, codec, fmap, tagio, index, libVars>>

\* lset up to fresh_entry: the arity and model checks, then the slot of the name,
\* which is held until the insert
LsetFresh(c) ==
    LET me == lists.cl[c]
        name == me.args[1]
    IN  /\ me.pc = "start" /\ me.op = "lset"
        /\ IF err_if_len_lt_1(me.args)
           THEN lists' = ListStep(c, [me EXCEPT !.pc = "done", !.resp = Resp("action-error")])
           ELSE IF lists.model # "listmap"
           THEN lists' = ListStep(c, [me EXCEPT !.pc = "done", !.resp = Resp("wrong-model")])
           ELSE /\ lists.slot[name] = 0
                /\ IF fresh_entry_is_some(lists.table, name)
                   THEN lists' = [lists EXCEPT !.slot[name] = c,
                                               !.cl[c] = [me EXCEPT !.pc = "insert"]]
                   ELSE lists' = ListStep(c, [me EXCEPT
                                    !.pc = "done", !.did = FALSE,
                                    !.seen = Saw(lists.table, name),
                                    !.resp = lset_response(FALSE)])
        /\ UNCHANGED <<execVars, codec, fmap, tagio, index, libVars>>

\* entry.insert(LockedVec::new(v)), releasing the slot, and the response
LsetInsert(c) ==
    LET me == lists.cl[c]
        name == me.args[1]
    IN  /\ me.pc = "insert"
        /\ lists' = [lists EXCEPT
                !.table = (name :> [items |-> lset_collect(me.args), by |-> c]) @@ @,
                !.slot[name] = 0,
                !.cl[c] = [me EXCEPT !.pc = "done", !.did = TRUE,
                                     !.resp = lset_response(TRUE)]]
        /\ UNCHANGED <<execVars, codec, fmap, tagio, index, libVars>>

\* the arms of lget that look the name up: listmap.get and listmap.len_of
lget_reads(rest) == rest = <<>> \/ rest[1] = "LEN"

\* lget: the arms that read the table do so under the name's slot; any other
\* subaction is answered without a lookup
Lget(c) ==
    /\ lists.cl[c].pc = "idle"
    /\ \E args \in LgetArgs :
        LET me == [IdleClient EXCEPT !.pc = "done", !.op = "lget", !.args = args]
        IN  IF err_if_len_lt_1(args)
            THEN lists' = ListStep(c, [me EXCEPT !.resp = Resp("action-error")])
            ELSE IF lists.model # "listmap"
            THEN lists' = ListStep(c, [me EXCEPT !.resp = Resp("wrong-model")])
            ELSE IF lget_reads(Tail(args))
            THEN /\ lists.slot[args[1]] = 0
                 /\ lists' = ListStep(c, [me EXCEPT
                        !.seen = Saw(lists.table, args[1]),
                        !.resp = lget_response(lists.table, args[1], Tail(args))])
            ELSE lists' = ListStep(c, [me EXCEPT
                        !.resp = lget_response(lists.table, args[1], Tail(args))])
    /\ UNCHANGED <<execVars, codec, fmap, tagio, index, libVars>>

\* the response is written and the client may send again
ListRespond(c) ==
    /\ lists.cl[c].pc = "done"
    /\ lists' = ListStep(c, IdleClient)
    /\ UNCHANGED <<execVars, codec, fmap, tagio, index, libVars>>

\* an empty table, of the list model or of another
InitLists ==
    /\ ExecAtRest
    /\ ql = Unused /\ memlist = Unused /\ pobj = Unused /\ uarray = Unused /\ client = Unused
    /\ codec = CodecIdle /\ fmap = Unused /\ tagio = Unused /\ index = Unused
    /\ \E model \in {"listmap", "kve"} :
            lists = [model |-> model, table |-> << >>,
                     slot |-> [n \in ListNames |-> 0],
                     cl |-> [c \in ListClients |-> IdleClient]]

NextLists ==
    \E c \in ListClients :
        \/ LsetStart(c)
        \/ LsetFresh(c)
        \/ LsetInsert(c)
        \/ Lget(c)
        \/ ListRespond(c)

(***************************************************************************)
(* The primary index under a sequence of st_insert calls                   *)
(***************************************************************************)
IndexKeys == {"k1", "k2", "k3"}
IndexVals == {"v1", "v2", "v3"}

NoCall == [key |-> "-", val |-> "-", ret |-> FALSE]

\* st_insert(key, val); `first` remembers the value of each key's first insert
\* that returned true
StInsert ==
    /\ index.phase = "index"
    /\ \E key \in IndexKeys, val \in IndexVals :
        LET r == st_insert(index.map, key, val)
        IN  index' = [index EXCEPT
                        !.map = r.map,
                        !.first = IF r.ok /\ key \notin DOMAIN @
                                  THEN (key :> val) @@ @ ELSE @,
                        !.last = [key |-> key, val |-> val, ret |-> r.ok]]
    /\ UNCHANGED <<execVars, codec, fmap, tagio, lists, libVars>>

\* idx_init: the empty index
InitIndex ==
    /\ ExecAtRest
    /\ ql = Unused /\ memlist = Unused /\ pobj = Unused /\ uarray = Unused /\ client = Unused
    /\ codec = CodecIdle /\ fmap = Unused /\ tagio = Unused /\ lists = Unused
    /\ index = [phase |-> "index", map |-> EmptyMap, first |-> EmptyMap, last |-> NoCall]

NextIndex == StInsert

(***************************************************************************)
(* The primary index under every call that reads or changes one key        *)
(***************************************************************************)
IndexOps ==
    {"st_insert", "st_upsert", "st_update", "st_update_return", "st_delete",
     "st_delete_return", "st_clear"}

NoOp == [op |-> "-", key |-> "-", val |-> "-", ok |-> FALSE, ret |-> NoVal]

\* the index after a call, with the call, its result and the index before it
IndexAfter(op, key, val, map, ok, ret) ==
    [phase |-> "ops", map |-> map, before |-> index.map,
     last |-> [op |-> op, key |-> key, val |-> val, ok |-> ok, ret |-> ret]]

OpInsert ==
    /\ index.phase = "ops"
    /\ \E key \in IndexKeys, val \in IndexVals :
        LET r == st_insert(index.map, key, val)
        IN  index' = IndexAfter("st_insert", key, val, r.map, r.ok, NoVal)
    /\ UNCHANGED <<execVars, codec, fmap, tagio, lists, libVars>>

OpUpsert ==
    /\ index.phase = "ops"
    /\ \E key \in IndexKeys, val \in IndexVals :
        index' = IndexAfter("st_upsert", key, val, st_upsert(index.map, key, val),
                            TRUE, NoVal)
    /\ UNCHANGED <<execVars, codec, fmap, tagio, lists, libVars>>

OpClear ==
    /\ index.phase = "ops"
    /\ index' = IndexAfter("st_clear", "-", "-", st_clear(index.map), TRUE, NoVal)
    /\ UNCHANGED <<execVars, codec, fmap, tagio, lists, libVars>>

OpUpdate ==
    /\ index.phase = "ops"
    /\ \E key \in IndexKeys, val \in IndexVals :
        LET r == st_update(index.map, key, val)
        IN  index' = IndexAfter("st_update", key, val, r.map, r.ok, NoVal)
    /\ UNCHANGED <<execVars, codec, fmap, tagio, lists, libVars>>

OpUpdateReturn ==
    /\ index.phase = "ops"
    /\ \E key \in IndexKeys, val \in IndexVals :
        LET r == st_update_return(index.map, key, val)
        IN  index' = IndexAfter("st_update_return", key, val, r.map, r.ret.some, r.ret)
    /\ UNCHANGED <<execVars, codec, fmap, tagio, lists, libVars>>

OpDelete ==
    /\ index.phase = "ops"
    /\ \E key \in IndexKeys :
        LET r == st_delete(index.map, key)
        IN  index' = IndexAfter("st_delete", key, "-", r.map, r.ok, NoVal)
    /\ UNCHANGED <<execVars, codec, fmap, tagio, lists, libVars>>

OpDeleteReturn ==
    /\ index.phase = "ops"
    /\ \E key \in IndexKeys :
        LET r == st_delete_return(index.map, key)
        IN  index' = IndexAfter("st_delete_return", key, "-", r.map, r.ret.some, r.ret)
    /\ UNCHANGED <<execVars, codec, fmap, tagio, lists, libVars>>

\* idx_init: the empty index
InitIndexOps ==
    /\ ExecAtRest
    /\ ql = Unused /\ memlist = Unused /\ pobj = Unused /\ uarray = Unused /\ client = Unused
    /\ codec = CodecIdle /\ fmap = Unused /\ tagio = Unused /\ lists = Unused
    /\ index = [phase |-> "ops", map |-> EmptyMap, before |-> EmptyMap, last |-> NoOp]

NextIndexOps ==
    \/ OpInsert \/ OpUpsert \/ OpUpdate \/ OpUpdateReturn
    \/ OpDelete \/ OpDeleteReturn \/ OpClear

(***************************************************************************)
(* The DROP SPACE and DROP MODEL parsers on every short token range        *)
(***************************************************************************)
MaxDropTokens == 4
DropTokens == {TokIdent("s"), TokForce, TokPeriod, TokLit, TokSpace}
DropInputs == UNION { [1..n -> DropTokens] : n \in 1..MaxDropTokens }

\* Self::parse(state) on the range, then the driver's test that it was used up
DropParse ==
    /\ ql.phase = "drop"
    /\ LET r == IF ql.node = "DropSpace" THEN DropSpace_parse(ql.toks)
                ELSE DropModel_parse(ql.toks)
       IN  ql' = [ql EXCEPT !.phase = "parsed", !.ok = r.node.ok, !.err = r.node.err,
                            !.force = r.node.force, !.cursor = r.cursor,
                            !.full = from_state_full_range(r, ql.toks).ok]
    /\ UNCHANGED <<execVars, codec, fmap, tagio, lists, index, memlist, pobj, uarray, client>>

InitDrop ==
    /\ UnitsAtRest
    /\ memlist = Unused /\ pobj = Unused /\ uarray = Unused /\ client = Unused
    /\ \E node \in {"DropSpace", "DropModel"}, toks \in DropInputs :
            ql = [phase |-> "drop", node |-> node, toks |-> toks, ok |-> FALSE,
                  err |-> "none", force |-> FALSE, cursor |-> 0, full |-> FALSE]

NextDrop == DropParse

(***************************************************************************)
(* The insecure lexer on a quoted string (ql/tests.rs, lexer_tests)        *)
(***************************************************************************)
MaxTextLen == 5
ChLetter == "a"
ChBackslash == "\\"
ChDouble == "\""
ChSingle == "'"
Quotes == {ChDouble, ChSingle}
TextChars == {ChLetter, ChBackslash, ChDouble, ChSingle}

LexStr(str, pos) == [ok |-> TRUE, str |-> str, pos |-> pos]
InvalidStringLiteral == [ok |-> FALSE, str |-> <<>>, pos |-> 0]

\* the scan of a string literal from `pos`, after the opening `quote`: the literal
\* so far is `buf`; the result is the literal and the position of its closing quote
RECURSIVE scan_quoted_string_any_escape(_, _, _, _)
scan_quoted_string_any_escape(src, pos, quote, buf) ==
    IF pos > Len(src) THEN InvalidStringLiteral
    ELSE IF src[pos] = quote THEN LexStr(buf, pos)
    ELSE IF src[pos] = ChBackslash
    THEN IF pos + 1 > Len(src) THEN InvalidStringLiteral
         ELSE scan_quoted_string_any_escape(src, pos + 2, quote, Append(buf, src[pos + 1]))
    ELSE scan_quoted_string_any_escape(src, pos + 1, quote, Append(buf, src[pos]))
RECURSIVE scan_quoted_string(_, _, _, _)
scan_quoted_string(src, pos, quote, buf) ==
    IF pos > Len(src) THEN InvalidStringLiteral
    ELSE IF src[pos] = quote THEN LexStr(buf, pos)
    ELSE IF src[pos] = ChBackslash
    THEN IF pos + 1 > Len(src) THEN InvalidStringLiteral
         ELSE IF src[pos + 1] \in Quotes \cup {ChBackslash}
         THEN scan_quoted_string(src, pos + 2, quote, Append(buf, src[pos + 1]))
         ELSE InvalidStringLiteral
    ELSE scan_quoted_string(src, pos + 1, quote, Append(buf, src[pos]))

\* the texts: an opening quote and up to MaxTextLen - 1 characters after it
TextInputs ==
    { <<q>> \o rest : q \in Quotes,
                      rest \in UNION { [1..n -> TextChars] : n \in 0..(MaxTextLen - 1) } }

\* lex(src) on a text that starts with a quote
LexString ==
    /\ ql.phase = "text"
    /\ ql' = [ql EXCEPT !.phase = "lexed",
                        !.out = scan_quoted_string(ql.src, 2, ql.src[1], <<>>)]
    /\ UNCHANGED <<execVars, codec, fmap, tagio, lists, index, memlist, pobj, uarray, client>>

InitLex ==
    /\ UnitsAtRest
    /\ memlist = Unused /\ pobj = Unused /\ uarray = Unused /\ client = Unused
    /\ \E src \in TextInputs : ql = [phase |-> "text", src |-> src, out |-> InvalidStringLiteral]

NextLex == LexString

(***************************************************************************)
(* Dictionary parsing under the comma fuzzer (ql/tests.rs, schema_tests)   *)
(***************************************************************************)
TokComma == [k |-> "sym", v |-> ","]
TokIgnorableComma == [k |-> "marker", v |-> "ignorable-comma"]

\* a dictionary is the sequence of its <<key, value>>; a value is a literal or a
\* dictionary
DLit(l) == [t |-> "lit", lit |-> l, d |-> <<>>]
DDict(d) == [t |-> "dict", lit |-> "-", d |-> d]
Folded(d, pos) == [ok |-> TRUE, d |-> d, pos |-> pos]
FoldNone == [ok |-> FALSE, d |-> <<>>, pos |-> 0]

has_key(d, key) == \E i \in 1..Len(d) : d[i][1] = key

\* schema::fold_dict: { key: value (, key: value)* [,] }, values literals or
\* dictionaries, no key twice; dict_entries reads from `pos`, after a `{` or a comma
RECURSIVE dict_entries(_, _, _), dict_after_value(_, _, _, _, _)
dict_after_value(toks, d, key, val, next) ==
    IF ~val.ok \/ has_key(d, key) \/ next > Len(toks) THEN FoldNone
    ELSE IF toks[next] = TokComma THEN dict_entries(toks, next + 1, Append(d, <<key, val.v>>))
    ELSE IF toks[next] = TokCloseBrace THEN Folded(Append(d, <<key, val.v>>), next + 1)
    ELSE FoldNone
\* the value of an entry from the fold of a nested dictionary
dict_nested_value(r) == [ok |-> r.ok, v |-> DDict(r.d), pos |-> r.pos]
dict_nested(toks, d, key, r) == dict_after_value(toks, d, key, dict_nested_value(r), r.pos)
dict_entries(toks, pos, d) ==
    IF pos > Len(toks) THEN FoldNone
    ELSE IF toks[pos] = TokCloseBrace THEN Folded(d, pos + 1)
    ELSE IF ~is_ident(toks[pos]) \/ pos + 2 > Len(toks) \/ toks[pos + 1] # TokColon
    THEN FoldNone
    ELSE IF toks[pos + 2].k = "lit"
    THEN dict_after_value(toks, d, toks[pos].v,
                          [ok |-> TRUE, v |-> DLit(toks[pos + 2].v), pos |-> pos + 3], pos + 3)
    ELSE IF toks[pos + 2] = TokOpenBrace
    THEN dict_nested(toks, d, toks[pos].v, dict_entries(toks, pos + 3, <<>>))
    ELSE FoldNone

\* the result of a fold that used every token
fold_result(toks, r) == IF r.ok /\ r.pos = Len(toks) + 1 THEN r ELSE FoldNone
fold_dict(toks) ==
    IF Len(toks) >= 1 /\ toks[1] = TokOpenBrace
    THEN fold_result(toks, dict_entries(toks, 2, <<>>))
    ELSE FoldNone

\* the most commas one call of `inject` adds
MaxInject == 2

\* lexed sources with their dictionaries: { a: 1, b: 1 \r }, { a: { b: 1 \r }, c: 1 \r }
\* and { a: {}, b: 1 \r }, where \r lexes to the ignorable comma
FuzzSources ==
    { [toks |-> <<TokOpenBrace, TokIdent("a"), TokColon, TokLit, TokComma,
                  TokIdent("b"), TokColon, TokLit, TokIgnorableComma, TokCloseBrace>>,
       dict |-> << <<"a", DLit("1")>>, <<"b", DLit("1")>> >>],
      [toks |-> <<TokOpenBrace, TokIdent("a"), TokColon, TokOpenBrace,
                  TokIdent("b"), TokColon, TokLit, TokIgnorableComma, TokCloseBrace,
                  TokComma, TokIdent("c"), TokColon, TokLit, TokIgnorableComma,
                  TokCloseBrace>>,
       dict |-> << <<"a", DDict(<< <<"b", DLit("1")>> >>)>>, <<"c", DLit("1")>> >>],
      [toks |-> <<TokOpenBrace, TokIdent("a"), TokColon, TokOpenBrace, TokCloseBrace,
                  TokComma, TokIdent("b"), TokColon, TokLit, TokIgnorableComma,
                  TokCloseBrace>>,
       dict |-> << <<"a", DDict(<<>>)>>, <<"b", DLit("1")>> >>] }

\* `n` commas
Commas(n) == [i \in 1..n |-> TokComma]

\* fuzz_tokens: the closure run on one token of src. For a comma or an ignorable
\* comma it may push a comma (should_add), then injects `added` more, and keeps
\* should_pass; `seen` remembers how many commas each target got
FuzzOne(f, tok, should_add, added) ==
    IF tok = TokIgnorableComma
    THEN [f EXCEPT !.i = @ + 1,
                   !.new_src = @ \o Commas(B2U(should_add) + added),
                   !.should_pass = @ /\ (added <= B2U(~should_add)),
                   !.seen = Append(@, [target |-> "ignorable", n |-> B2U(should_add) + added])]
    ELSE IF tok = TokComma
    THEN [f EXCEPT !.i = @ + 1,
                   !.new_src = @ \o Commas(B2U(should_add) + added),
                   !.should_pass = (IF should_add THEN @ ELSE FALSE)
                                        /\ (added = B2U(~should_add)),
                   !.seen = Append(@, [target |-> "comma", n |-> B2U(should_add) + added])]
    ELSE [f EXCEPT !.i = @ + 1, !.new_src = Append(@, tok)]

\* one step of src.iter().for_each(..)
FuzzToken ==
    /\ ql.phase = "fuzz" /\ ql.i <= Len(ql.src.toks)
    /\ \E should_add \in BOOLEAN, added \in 0..MaxInject :
            ql' = FuzzOne(ql, ql.src.toks[ql.i], should_add, added)
    /\ UNCHANGED <<execVars, codec, fmap, tagio, lists, index, memlist, pobj, uarray, client>>

\* fuzzwith(should_pass, &new_src) of fuzz_dict: the fold and what the test asserts
FuzzFold ==
    /\ ql.phase = "fuzz" /\ ql.i > Len(ql.src.toks)
    /\ LET r == fold_dict(ql.new_src)
       IN  ql' = [ql EXCEPT !.phase = "folded", !.r = r,
                            !.panicked = IF ql.should_pass THEN ~r.ok \/ r.d # ql.src.dict
                                         ELSE r.ok]
    /\ UNCHANGED <<execVars, codec, fmap, tagio, lists, index, memlist, pobj, uarray, client>>

InitFuzz ==
    /\ UnitsAtRest
    /\ memlist = Unused /\ pobj = Unused /\ uarray = Unused /\ client = Unused
    /\ \E src \in FuzzSources :
            ql = [phase |-> "fuzz", src |-> src, i |-> 1, new_src |-> <<>>,
                  should_pass |-> TRUE, seen |-> <<>>, r |-> FoldNone, panicked |-> FALSE]

NextFuzz == FuzzToken \/ FuzzFold

(***************************************************************************)
(* Folding a type declaration into layers (ql/tests.rs, tymeta and layer)  *)
(***************************************************************************)
TokType == [k |-> "kw", v |-> "type"]

\* Layer::new(ty, props)
QLayer(ty, props) == [ty |-> ty, props |-> props]

TyMeta(okay, has_more, pos, d) == [okay |-> okay, has_more |-> has_more, pos |-> pos, d |-> d]
Layers(okay, layers, pos) == [okay |-> okay, layers |-> layers, pos |-> pos]

\* schema::fold_tymeta from `pos`, inside the braces of a type: the properties up
\* to the closing brace (no more), or up to a `type` entry (has more), where the
\* cursor is left at the type's name
RECURSIVE fold_tymeta(_, _, _), tymeta_after_value(_, _, _, _, _)
tymeta_after_value(toks, d, key, val, next) ==
    IF ~val.ok \/ has_key(d, key) \/ next > Len(toks) THEN TyMeta(FALSE, FALSE, next, d)
    ELSE IF toks[next] = TokComma THEN fold_tymeta(toks, next + 1, Append(d, <<key, val.v>>))
    ELSE IF toks[next] = TokCloseBrace
    THEN TyMeta(TRUE, FALSE, next + 1, Append(d, <<key, val.v>>))
    ELSE TyMeta(FALSE, FALSE, next, d)
tymeta_nested(toks, d, key, r) == tymeta_after_value(toks, d, key, dict_nested_value(r), r.pos)
fold_tymeta(toks, pos, d) ==
    IF pos > Len(toks) THEN TyMeta(FALSE, FALSE, pos, d)
    ELSE IF toks[pos] = TokCloseBrace THEN TyMeta(TRUE, FALSE, pos + 1, d)
    ELSE IF toks[pos] = TokType THEN TyMeta(TRUE, TRUE, pos + 1, d)
    ELSE IF ~is_ident(toks[pos]) \/ pos + 2 > Len(toks) \/ toks[pos + 1] # TokColon
    THEN TyMeta(FALSE, FALSE, pos, d)
    ELSE IF toks[pos + 2].k = "lit"
    THEN tymeta_after_value(toks, d, toks[pos].v,
                            [ok |-> TRUE, v |-> DLit(toks[pos + 2].v), pos |-> pos + 3],
                            pos + 3)
    ELSE IF toks[pos + 2] = TokOpenBrace
    THEN tymeta_nested(toks, d, toks[pos].v, dict_entries(toks, pos + 3, <<>>))
    ELSE TyMeta(FALSE, FALSE, pos, d)

\* schema::fold_layers from `pos`: a type, then in braces its properties and at most
\* one `type` entry, whose layers come first
RECURSIVE fold_layers(_, _), layer_props(_, _, _, _), layer_inner(_, _, _, _, _)
\* after the layers `n` of the `type` entry: a comma, or the closing brace
layer_inner_outermost_first(toks, ty, r, inner, n) ==
    IF ~n.okay \/ inner # <<>> \/ n.pos > Len(toks) THEN Layers(FALSE, <<>>, n.pos)
    ELSE layer_props(toks, ty,
                     fold_tymeta(toks, n.pos + B2U(toks[n.pos] = TokComma), r.d),
                     <<QLayer(ty, <<>>)>> \o n.layers)
layer_inner(toks, ty, r, inner, n) ==
    IF ~n.okay \/ inner # <<>> \/ n.pos > Len(toks) THEN Layers(FALSE, <<>>, n.pos)
    ELSE layer_props(toks, ty,
                     fold_tymeta(toks, n.pos + B2U(toks[n.pos] = TokComma), r.d),
                     n.layers)
\* the properties `r` folded so far for the type `ty`, with the layers below it
layer_props(toks, ty, r, inner) ==
    IF ~r.okay THEN Layers(FALSE, <<>>, r.pos)
    ELSE IF r.has_more THEN layer_inner(toks, ty, r, inner, fold_layers(toks, r.pos))
    ELSE Layers(TRUE, Append(inner, QLayer(ty, r.d)), r.pos)
fold_layers(toks, pos) ==
    IF pos > Len(toks) \/ toks[pos].k # "ty" THEN Layers(FALSE, <<>>, pos)
    ELSE IF pos < Len(toks) /\ toks[pos + 1] = TokOpenBrace
    THEN layer_props(toks, toks[pos].v, fold_tymeta(toks, pos + 2, <<>>), <<>>)
    ELSE Layers(TRUE, <<QLayer(toks[pos].v, <<>>)>>, pos + 1)

\* declarations: a type, with or without braces; in the braces properties before
\* and after at most one `type` entry, up to MaxTypeDepth types deep
MaxTypeDepth == 2
PropsBefore ==
    { <<>>, << <<"a", DLit("1")>> >>,
      << <<"a", DLit("1")>>, <<"b", DDict(<< <<"c", DLit("1")>> >>)>> >> }
PropsBeforeType == { <<>>, << <<"a", DLit("1")>> >> }
PropsAfter == { <<>>, << <<"z", DLit("1")>> >> }
Decl(ty, braces, before, inner, after) ==
    [ty |-> ty, braces |-> braces, before |-> before, inner |-> inner, after |-> after]
RECURSIVE DeclsOfDepth(_)
DeclsOfDepth(n) ==
    IF n = 1
    THEN { Decl(ty, FALSE, <<>>, <<>>, <<>>) : ty \in {"string", "list"} }
            \cup { Decl(ty, TRUE, b, <<>>, <<>>) : ty \in {"string", "list"}, b \in PropsBefore }
    ELSE { Decl(ty, TRUE, b, <<i>>, a) :
                ty \in {"string", "list"}, b \in PropsBeforeType,
                i \in DeclsOfDepth(n - 1), a \in PropsAfter }
DeclInputs == UNION { DeclsOfDepth(n) : n \in 1..MaxTypeDepth }

\* the tokens of a dictionary's entries and of a declaration
RECURSIVE EntryTokens(_), DeclTokens(_)
EntryTokens(d) ==
    IF d = <<>> THEN <<>>
    ELSE <<TokIdent(d[1][1]), TokColon>>
            \o (IF d[1][2].t = "lit" THEN <<TokLit>>
                ELSE <<TokOpenBrace>> \o EntryTokens(d[1][2].d) \o <<TokCloseBrace>>)
            \o (IF Len(d) > 1 THEN <<TokComma>> \o EntryTokens(Tail(d)) ELSE <<>>)
DeclTokens(decl) ==
    <<TokTy(decl.ty)>>
        \o (IF ~decl.braces THEN <<>>
            ELSE <<TokOpenBrace>>
                    \o EntryTokens(decl.before)
                    \o (IF decl.inner = <<>> THEN <<>>
                        ELSE (IF decl.before = <<>> THEN <<>> ELSE <<TokComma>>)
                                \o <<TokType>> \o DeclTokens(decl.inner[1])
                                \o (IF decl.after = <<>> THEN <<>> ELSE <<TokComma>>))
                    \o EntryTokens(decl.after)
                    \o <<TokCloseBrace>>)

\* schema::fold_layers(&tok)
FoldLayers ==
    /\ ql.phase = "decl"
    /\ ql' = [ql EXCEPT !.phase = "layers", !.out = fold_layers(ql.toks, 1)]
    /\ UNCHANGED <<execVars, codec, fmap, tagio, lists, index, memlist, pobj, uarray, client>>

\* a declaration alone, or followed by the `)` of the field list
InitLayers ==
    /\ UnitsAtRest
    /\ memlist = Unused /\ pobj = Unused /\ uarray = Unused /\ client = Unused
    /\ \E decl \in DeclInputs, tail \in {<<>>, <<TokCloseParen>>} :
            ql = [phase |-> "decl", decl |-> decl, toks |-> DeclTokens(decl) \o tail,
                  out |-> Layers(FALSE, <<>>, 0)]

NextLayers == FoldLayers

(***************************************************************************)
(* Lists: the dictionary decoder's List arm on given bytes (inf/map.rs),   *)
(* and DataType::List built from an array (memory/mod.rs)                  *)
(***************************************************************************)
\* a DataType, as its discriminant and its payload
DataType(disc, b, n, s, l) == [disc |-> disc, b |-> b, n |-> n, s |-> s, l |-> l]
DtString(s) == DataType("String", FALSE, 0, s, <<>>)
DtBinary(s) == DataType("Binary", FALSE, 0, s, <<>>)
DtUnsignedInt(n) == DataType("UnsignedInt", FALSE, n, <<>>, <<>>)
DtSignedInt(n) == DataType("SignedInt", FALSE, n, <<>>, <<>>)
DtBoolean(b) == DataType("Boolean", b, 0, <<>>, <<>>)
DtList(l) == DataType("List", FALSE, 0, <<>>, l)

\* impl From<[DataType; N]> for DataType
DataType_from(f) == DtList(f)

\* the items an array is built of
ArrayItems ==
    {DtBoolean(FALSE), DtBoolean(TRUE), DtUnsignedInt(1), DtSignedInt(1),
     DtString(<<97>>), DtBinary(<<97>>)}
ArrayInputs == UNION {[1..n -> ArrayItems] : n \in 0..MaxListLen}

\* the items of a persisted list, each as the decoder reads it: a descriptor
\* byte, then the value
ItemCells ==
    {new_bool(FALSE), new_bool(TRUE), new_qw(U64(1), "UnsignedInt"),
     new_qw(U64(1), "SignedInt"), new_str(<<97>>), new_bin(<<97>>)}
item_bytes(dc) == <<translate_from_class(dc.cls)>> \o encode_element(dc)

\* a dictionary of one entry `a` whose value is a list of the given items
list_entry_bytes(items) ==
    u64_bytes_le(1) \o entry_md_enc(KeyA) \o <<DscrList>> \o KeyA
        \o u64_bytes_le(Len(items))
        \o Flatten([i \in 1..Len(items) |-> item_bytes(items[i])])
ListByteInputs == UNION {[1..n -> ItemCells] : n \in 0..MaxListLen}

\* DataType::from([..])
ListFromArray ==
    /\ memlist.phase = "array"
    /\ memlist' = [memlist EXCEPT !.phase = "list", !.out = DataType_from(memlist.f)]
    /\ UNCHANGED <<execVars, codec, fmap, tagio, lists, index, ql, pobj, uarray, client>>

\* either bytes handed to the decoder, or an array handed to DataType::from
InitListBuild ==
    /\ ExecAtRest
    /\ fmap = Unused /\ tagio = Unused /\ lists = Unused /\ index = Unused
    /\ ql = Unused /\ pobj = Unused /\ uarray = Unused /\ client = Unused
    /\ \/ /\ memlist = Unused
          /\ \E items \in ListByteInputs :
                codec = [phase |-> "encoded", d |-> <<>>, buf |-> list_entry_bytes(items),
                         tamper |-> NoTamper, out |-> DecFail("-", 0)]
       \/ /\ codec = CodecIdle
          /\ \E f \in ArrayInputs :
                memlist = [phase |-> "array", f |-> f, out |-> DtList(<<>>)]

NextListBuild == DictDecode \/ ListFromArray

(***************************************************************************)
(* PersistObject::default_full_dec (storage/v1/inf/mod.rs), one step per   *)
(* call it makes.  The object's own hooks (meta_dec, pretest_can_dec_object *)
(* and obj_dec) are any implementation's: their outcomes are chosen freely. *)
(***************************************************************************)
MaxObjLen == 3
MaxMetadataSize == 2
ObjBytes == {0, 1}
ObjBufs == UNION {[1..n -> ObjBytes] : n \in 0..MaxObjLen}
\* the errors an implementation's meta_dec and obj_dec return
HookErrors == {"InternalDecodeStructureCorruptedPayload", "InternalDecodeStructureIllegalData"}

NoResult == "-"
Called(f, ok, at) == [f |-> f, ok |-> ok, at |-> at]

\* PersistObject::pretest_can_dec_metadata (the default)
pretest_can_dec_metadata(buf, pos, METADATA_SIZE) == has_left(buf, pos, METADATA_SIZE)

\* default_full_dec after each call: the step it goes to, or the error it returns
after_pretest_metadata(ok) ==
    IF ~ok THEN [phase |-> "done", res |-> "InternalDecodeStructureCorrupted"]
    ELSE [phase |-> "meta_dec", res |-> NoResult]
after_meta_dec(r) ==
    IF r # "ok" THEN [phase |-> "done", res |-> r]
    ELSE [phase |-> "pretest_can_dec_object", res |-> NoResult]
after_pretest_object_unchecked(ok) == [phase |-> "obj_dec", res |-> NoResult]
after_pretest_object(ok) ==
    IF ~ok THEN [phase |-> "done", res |-> "InternalDecodeStructureCorruptedPayload"]
    ELSE [phase |-> "obj_dec", res |-> NoResult]

PObjStep(next, call, pos) ==
    pobj' = [pobj EXCEPT !.phase = next.phase, !.res = next.res, !.pos = pos,
                         !.calls = Append(@, call)]

\* if !Self::pretest_can_dec_metadata(scanner) { return Err(..) }
PretestMetadata ==
    /\ pobj.phase = "pretest_can_dec_metadata"
    /\ LET ok == pretest_can_dec_metadata(pobj.buf, pobj.pos, pobj.msize)
       IN  PObjStep(after_pretest_metadata(ok),
                    Called("pretest_can_dec_metadata", ok, pobj.pos), pobj.pos)
    /\ UNCHANGED <<execVars, codec, fmap, tagio, lists, index, ql, memlist, uarray, client>>

\* let md = Self::meta_dec(scanner)?  -- reads the metadata region, or fails
MetaDec ==
    /\ pobj.phase = "meta_dec"
    /\ \E r \in {"ok"} \cup HookErrors :
            PObjStep(after_meta_dec(r), Called("meta_dec", r = "ok", pobj.pos),
                     pobj.pos + pobj.msize)
    /\ UNCHANGED <<execVars, codec, fmap, tagio, lists, index, ql, memlist, uarray, client>>

\* if !Self::pretest_can_dec_object(scanner, &md) { return Err(..) }
PretestObject ==
    /\ pobj.phase = "pretest_can_dec_object"
    /\ \E ok \in BOOLEAN :
            PObjStep(after_pretest_object(ok),
                     Called("pretest_can_dec_object", ok, pobj.pos), pobj.pos)
    /\ UNCHANGED <<execVars, codec, fmap, tagio, lists, index, ql, memlist, uarray, client>>

\* Self::obj_dec(scanner, md)  -- reads some of what is left, and returns
ObjDec ==
    /\ pobj.phase = "obj_dec"
    /\ \E r \in {"ok"} \cup HookErrors, n \in 0..(Len(pobj.buf) - pobj.pos) :
            PObjStep([phase |-> "done", res |-> r], Called("obj_dec", r = "ok", pobj.pos),
                     pobj.pos + n)
    /\ UNCHANGED <<execVars, codec, fmap, tagio, lists, index, ql, memlist, uarray, client>>

\* a scanner anywhere in a buffer, and an object type with its METADATA_SIZE
InitPersistObject ==
    /\ UnitsAtRest
    /\ ql = Unused /\ memlist = Unused /\ uarray = Unused /\ client = Unused
    /\ \E buf \in ObjBufs, msize \in 0..MaxMetadataSize :
       \E pos \in 0..Len(buf) :
            pobj = [phase |-> "pretest_can_dec_metadata", buf |-> buf, start |-> pos,
                    pos |-> pos, msize |-> msize, calls |-> <<>>, res |-> NoResult]

NextPersistObject == PretestMetadata \/ MetaDec \/ PretestObject \/ ObjDec

(***************************************************************************)
(* UArray<N, T> (mem/uarray.rs): N slots and a length.  The elements are   *)
(* told apart by the order in which they were made: 1, 2, ..               *)
(***************************************************************************)
UArrayCap == 2
MaxElems == 4
MaxExtend == 3
MaxRemoves == 2
\* a slot never written
Uninit == 0

\* UArray::new
UArray_new == [a |-> [i \in 1..UArrayCap |-> Uninit], l |-> 0]
\* as_slice: the first l slots
as_slice(u) == SubSeq(u.a, 1, u.l)
UResult(ok, ret, u) == [ok |-> ok, ret |-> ret, u |-> u]

\* push_unchecked: write at index l, then incr_len
push_unchecked(u, v) == [a |-> [u.a EXCEPT ![u.l + 1] = v], l |-> u.l + 1]
\* push: panics ("stack,capof") on a full array
push(u, v) ==
    IF u.l = UArrayCap THEN UResult(FALSE, Uninit, u)
    ELSE UResult(TRUE, Uninit, push_unchecked(u, v))

\* remove_unchecked: ptr::read(target), then ptr::copy(target + 1, target,
\* len - idx - 1); the length is not written
remove_unchecked(u, idx) ==
    UResult(TRUE, u.a[idx + 1],
            [a |-> [i \in 1..Len(u.a) |->
                        IF i >= idx + 1 /\ i <= u.l - 1 THEN u.a[i + 1] ELSE u.a[i]],
             l |-> u.l])
\* remove: panics ("out of range") when idx >= len
remove(u, idx) ==
    IF idx >= u.l THEN UResult(FALSE, Uninit, u) ELSE remove_unchecked(u, idx)

\* Extend::extend: iter.for_each(|v| self.push(v)), up to the push that panics
RECURSIVE extend(_, _)
extend(u, items) ==
    IF items = <<>> THEN UResult(TRUE, Uninit, u)
    ELSE LET r == push(u, Head(items))
         IN  IF ~r.ok THEN r ELSE extend(r.u, Tail(items))
\* no array: what a call that panicked gives back
NoArray == [a |-> <<>>, l |-> 0]
\* FromIterator::from_iter: slf is a local, so the push that panics unwinds
\* through it and the caller gets no array
from_iter(items) ==
    IF extend(UArray_new, items).ok THEN extend(UArray_new, items)
    ELSE UResult(FALSE, Uninit, NoArray)

\* IntoIterator::into_iter: set_len(0), and the iterator takes the array
into_iter(u) == [i |-> 0, l |-> u.l, d |-> [u EXCEPT !.l = 0]]
NoIter == [i |-> 0, l |-> 0, d |-> UArray_new]

NoOpU == [op |-> "none", arg |-> 0, ok |-> TRUE, ret |-> Uninit, before |-> UArray_new]
UOp(op, arg, r, before) ==
    [op |-> op, arg |-> arg, ok |-> r.ok, ret |-> r.ret, before |-> before]
\* the elements next .. next + k - 1
Fresh(next, k) == [i \in 1..k |-> next + i - 1]
\* the elements of items that an extend wrote into u: those up to the capacity
Written(u, items) ==
    SubSeq(items, 1, IF Len(items) <= UArrayCap - u.l THEN Len(items) ELSE UArrayCap - u.l)

\* what the panic of a push inside from_iter drops while it unwinds, in order: the
\* item given to that push, the items left in the iterator, then slf's slice
unwind_drops(items) ==
    SubSeq(items, Len(Written(UArray_new, items)) + 1, Len(items))
        \o Written(UArray_new, items)

\* array.push(v)
UPush ==
    /\ uarray.phase = "array"
    /\ uarray.next <= MaxElems
    /\ LET r == push(uarray.u, uarray.next)
       IN  uarray' = [uarray EXCEPT !.u = r.u, !.next = @ + 1,
                         !.pushed = IF r.ok THEN Append(@, uarray.next) ELSE @,
                         !.last = UOp("push", uarray.next, r, uarray.u)]
    /\ UNCHANGED <<execVars, codec, fmap, tagio, lists, index, ql, memlist, pobj, client>>

\* array.remove(idx)
URemove ==
    /\ uarray.phase = "array"
    /\ Len(uarray.removed) < MaxRemoves
    /\ \E idx \in 0..UArrayCap :
         LET r == remove(uarray.u, idx)
         IN  uarray' = [uarray EXCEPT !.u = r.u,
                           !.removed = IF r.ok THEN Append(@, r.ret) ELSE @,
                           !.last = UOp("remove", idx, r, uarray.u)]
    /\ UNCHANGED <<execVars, codec, fmap, tagio, lists, index, ql, memlist, pobj, client>>

\* array.extend(iter) with an iterator of k items
UExtend ==
    /\ uarray.phase = "array"
    /\ \E k \in 1..MaxExtend :
         /\ uarray.next + k - 1 <= MaxElems
         /\ LET items == Fresh(uarray.next, k)
                r == extend(uarray.u, items)
            IN  uarray' = [uarray EXCEPT !.u = r.u, !.next = @ + k,
                              !.pushed = @ \o Written(uarray.u, items),
                              !.last = UOp("extend", k, r, uarray.u)]
    /\ UNCHANGED <<execVars, codec, fmap, tagio, lists, index, ql, memlist, pobj, client>>

\* array.into_iter()
UIntoIter ==
    /\ uarray.phase = "array"
    /\ uarray' = [uarray EXCEPT !.phase = "iter", !.it = into_iter(uarray.u),
                     !.u = into_iter(uarray.u).d, !.src = as_slice(uarray.u),
                     !.last = UOp("into_iter", 0, UResult(TRUE, Uninit, uarray.u), uarray.u)]
    /\ UNCHANGED <<execVars, codec, fmap, tagio, lists, index, ql, memlist, pobj, client>>

\* IntoIter::next: None when i == l, else the element at i
UIterNext ==
    /\ uarray.phase = "iter"
    /\ uarray' = IF uarray.it.i = uarray.it.l
                 THEN [uarray EXCEPT !.phase = "iterated"]
                 ELSE [uarray EXCEPT !.out = Append(@, uarray.it.d.a[uarray.it.i + 1]),
                                     !.it.i = @ + 1]
    /\ UNCHANGED <<execVars, codec, fmap, tagio, lists, index, ql, memlist, pobj, client>>

\* Drop for IntoIter: the elements not yet yielded; the array it holds is empty
UIterDrop ==
    /\ uarray.phase \in {"iter", "iterated"}
    /\ uarray' = [uarray EXCEPT !.phase = "dropped",
                     !.dropped = SubSeq(uarray.it.d.a, uarray.it.i + 1, uarray.it.l)]
    /\ UNCHANGED <<execVars, codec, fmap, tagio, lists, index, ql, memlist, pobj, client>>

\* Drop for UArray: drop_in_place(as_slice_mut())
UDrop ==
    /\ uarray.phase = "array"
    /\ uarray' = [uarray EXCEPT !.phase = "dropped", !.dropped = as_slice(uarray.u)]
    /\ UNCHANGED <<execVars, codec, fmap, tagio, lists, index, ql, memlist, pobj, client>>

\* UArray::new(), or an iterator of k items collected: an array, or the panic
\* that unwound it
InitUArray ==
    /\ UnitsAtRest
    /\ ql = Unused /\ memlist = Unused /\ pobj = Unused /\ client = Unused
    /\ \E k \in 0..MaxExtend :
         LET items == Fresh(1, k)
             r == from_iter(items)
         IN  uarray = [phase |-> IF r.ok THEN "array" ELSE "unwound",
                       u |-> r.u, next |-> k + 1,
                       pushed |-> Written(UArray_new, items), removed |-> <<>>,
                       last |-> UOp("from_iter", k, r, UArray_new),
                       it |-> NoIter, src |-> <<>>, out |-> <<>>,
                       dropped |-> IF r.ok THEN <<>> ELSE unwind_drops(items)]

NextUArray == UPush \/ URemove \/ UExtend \/ UIntoIter \/ UIterNext \/ UIterDrop \/ UDrop

(***************************************************************************)
(* The client's Connection::run_query (cli/src/protocol/mod.rs).  The      *)
(* server's answer is a response of `total` bytes, well formed or not, of  *)
(* which `wire` bytes are still to arrive; a server that sends less than   *)
(* the whole response closes the connection after what it sent.            *)
(***************************************************************************)
MaxRespLen == 3
RespKinds == {"valid", "invalid"}

\* deserializer::parse on the buffered bytes: incomplete until the whole response
\* is buffered, then the response with its length, or invalid
ClientResult(kind, f) == [kind |-> kind, f |-> f]
parse(buffer, kind, total) ==
    IF buffer < total THEN ClientResult("Incomplete", 0)
    ELSE IF kind = "valid" THEN ClientResult("Response", total)
    ELSE ClientResult("InvalidResponse", 0)
\* try_response
try_response(buffer, kind, total) ==
    IF buffer = 0 THEN ClientResult("Empty", 0) ELSE parse(buffer, kind, total)

Return(c, result) == [c EXCEPT !.pc = "returned", !.result = result]

\* self.stream.write_all(&query).await
ClientWrite ==
    /\ client.pc = "write"
    /\ \/ client' = [client EXCEPT !.pc = "read"]
       \/ client' = Return(client, "write-error")
    /\ UNCHANGED <<execVars, codec, fmap, tagio, lists, index, ql, memlist, pobj, uarray>>

\* self.stream.read_buf(&mut self.buffer).await: some of the bytes in flight,
\* Ok(0) at the end of a closed stream, or an error
ClientRead ==
    /\ client.pc = "read"
    /\ \/ \E n \in 1..client.wire :
            client' = [client EXCEPT !.pc = "parse", !.buffer = @ + n, !.wire = @ - n]
       \/ /\ client.wire = 0
          /\ client.closes
          /\ client' = [client EXCEPT !.pc = "parse"]
       \/ client' = Return(client, "read-error")
    /\ UNCHANGED <<execVars, codec, fmap, tagio, lists, index, ql, memlist, pobj, uarray>>

\* match self.try_response().await { .. }
ClientParse ==
    /\ client.pc = "parse"
    /\ LET r == try_response(client.buffer, client.kind, client.total)
       IN  client' =
             CASE r.kind = "Empty" -> Return([client EXCEPT !.buffer = @ - r.f], "reset")
               [] r.kind = "Incomplete" -> [client EXCEPT !.pc = "read"]
               [] r.kind = "Response" ->
                    Return([client EXCEPT !.buffer = @ - r.f], "response")
               [] r.kind = "InvalidResponse" ->
                    Return([client EXCEPT !.buffer = 0], "invalid")
    /\ UNCHANGED <<execVars, codec, fmap, tagio, lists, index, ql, memlist, pobj, uarray>>

\* a query about to be written, and the server's answer to it
InitClient ==
    /\ UnitsAtRest
    /\ ql = Unused /\ memlist = Unused /\ pobj = Unused /\ uarray = Unused
    /\ \E kind \in RespKinds, total \in 1..MaxRespLen, closes \in BOOLEAN :
       \E sends \in 0..total :
            /\ sends < total => closes
            /\ client = [pc |-> "write", kind |-> kind, total |-> total, wire |-> sends,
                         closes |-> closes, buffer |-> 0, result |-> "-"]

NextClient == ClientWrite \/ ClientRead \/ ClientParse

(***************************************************************************)
(* The dispatcher's specifications                                         *)
(***************************************************************************)

InitCommon ==
    /\ ql = Unused /\ memlist = Unused /\ pobj = Unused /\ uarray = Unused /\ client = Unused
    /\ conn = [c \in Conns |-> FreshConn]
    /\ worker = [c \in Conns |-> NoWorker]
    /\ spaces = EmptyMap
    /\ guard = 0
    /\ wins = [n \in AnyNames |-> 0]
    /\ codec = CodecIdle
    /\ fmap = Unused /\ tagio = Unused /\ lists = Unused /\ index = Unused

\* one client sending every query of ExecQueries
Init ==
    /\ InitCommon
    /\ workload = [c \in Conns |-> IF c = 1 THEN "exec" ELSE "none"]

\* every client sending CREATE SPACE statements
InitNS ==
    /\ InitCommon
    /\ workload = [c \in Conns |-> "ns"]

\* two clients sending a statement of each DDL kind, any further client sending
\* CREATE SPACE statements
InitDDL ==
    /\ InitCommon
    /\ workload = [c \in Conns |-> IF c <= 2 THEN "ddl" ELSE "ns"]

\* the codec given every dictionary of DictInputs
InitDict ==
    /\ ExecAtRest
    /\ ql = Unused /\ memlist = Unused /\ pobj = Unused /\ uarray = Unused /\ client = Unused
    /\ fmap = Unused /\ tagio = Unused /\ lists = Unused /\ index = Unused
    /\ \E d \in DictInputs :
            codec = [phase |-> "input", d |-> d, buf |-> <<>>, tamper |-> NoTamper,
                     out |-> DecFail("-", 0)]

SpecTag == InitTag /\ [][NextTag]_vars

SpecFieldMap == InitFieldMap /\ [][NextFieldMap]_vars

SpecLists == InitLists /\ [][NextLists]_vars

\* the task that runs run_query is polled whenever it can go on
SpecClient == InitClient /\ [][NextClient]_vars /\ WF_vars(NextClient)
SpecUArray == InitUArray /\ [][NextUArray]_vars
SpecPersistObject == InitPersistObject /\ [][NextPersistObject]_vars
SpecListBuild == InitListBuild /\ [][NextListBuild]_vars
SpecLayers == InitLayers /\ [][NextLayers]_vars
SpecFuzz == InitFuzz /\ [][NextFuzz]_vars
SpecLex == InitLex /\ [][NextLex]_vars
SpecDrop == InitDrop /\ [][NextDrop]_vars
SpecIndexOps == InitIndexOps /\ [][NextIndexOps]_vars
SpecIndex == InitIndex /\ [][NextIndex]_vars

NextDict == DictEncode \/ DictTruncate \/ DictCorrupt \/ DictDecode

SpecDict == InitDict /\ [][NextDict]_vars

Next ==
    \E c \in Conns :
        \/ \E q \in QueriesOf(workload[c]) : Receive(c, q)
        \/ Classify(c)
        \/ Dispatch(c)
        \/ Join(c)
        \/ Respond(c)
        \/ Cancel(c)
        \/ WorkerEnter(c)
        \/ WorkerVerify(c)
        \/ WorkerUpgrade(c)
        \/ WorkerCommit(c)
        \/ WorkerReap(c)

\* the steps of clients that keep their connections
NextConnected ==
    \E c \in Conns :
        \/ \E q \in QueriesOf(workload[c]) : Receive(c, q)
        \/ Classify(c)
        \/ Dispatch(c)
        \/ Join(c)
        \/ Respond(c)
        \/ WorkerEnter(c)
        \/ WorkerVerify(c)
        \/ WorkerUpgrade(c)
        \/ WorkerCommit(c)

Spec == Init /\ [][Next]_vars
SpecNS == InitNS /\ [][Next]_vars
SpecDDL == InitDDL /\ [][NextConnected]_vars

(***************************************************************************)
(* Claims about the dispatcher                                             *)
(***************************************************************************)
\* a query that went through the check of dispatch_to_executor
Classified(c) == conn[c].pc \in {"classify", "dispatched", "done", "aborted"}
LeadsWithStmt(toks) == toks[1].k = "stmt"
NoHandlerRan(c) ==
    conn[c].handler = "none" /\ conn[c].route = "none" /\ worker[c].pc = "none"

\* the check of dispatch_to_executor with a gate of n tokens, on connection c
GateAt(c, n) ==
    LET toks == conn[c].tokens
    IN  IF Len(toks) >= n /\ LeadsWithStmt(toks)
        THEN conn[c].stmt = toks[1].v /\ conn[c].outcome # "expected-statement"
        ELSE /\ conn[c].pc = "done"
             /\ conn[c].outcome = "expected-statement"
             /\ NoHandlerRan(c)

\* C1 as stated: a query of fewer than 4 tokens, or one not led by a statement
\* keyword, is answered expected-statement with no handler invoked; every other
\* query proceeds to classification.
C1_GateAtFourTokens == \A c \in Conns : Classified(c) => GateAt(c, 4)

\* C1, amended: the gate is 3 tokens, and the empty query is not answered at all:
\* a query of 1 or 2 tokens, or a non-empty one not led by a statement keyword,
\* gives expected-statement and no handler; the read of token 0 of an empty query
\* panics, with no handler invoked; 3 or more tokens led by a statement keyword
\* proceed to classification.
C1_GateAtThreeTokens ==
    \A c \in Conns :
        Classified(c) =>
            IF conn[c].tokens = <<>>
            THEN /\ conn[c].pc = "aborted"
                 /\ conn[c].outcome = "panic"
                 /\ NoHandlerRan(c)
            ELSE GateAt(c, 3)

C1_Witness ==
    \E c \in Conns :
        /\ conn[c].pc = "classify"
        /\ Len(conn[c].tokens) = 3
        /\ conn[c].stmt = "CREATE"

\* C2: a statement is submitted to the blocking pool exactly when its keyword is
\* CREATE, ALTER, DROP or SYSCTL; every other statement keyword runs inline on the
\* calling task and never has a worker.
C2_PoolIffBlocking ==
    \A c \in Conns :
        conn[c].route # "none" =>
            /\ conn[c].route = "pool" <=> conn[c].stmt \in {"CREATE", "ALTER", "DROP", "SYSCTL"}
            /\ conn[c].route = "inline" <=>
                    conn[c].stmt \in {"USE", "INSPECT", "DESCRIBE", "INSERT", "SELECT",
                                      "UPDATE", "DELETE", "EXISTS"}
            /\ conn[c].route = "inline" => worker[c].pc = "none" /\ conn[c].handler # "none"

C2_Witness ==
    \E c \in Conns :
        /\ conn[c].route = "pool"
        /\ conn[c].stmt = "SYSCTL"
        /\ worker[c].pc = "spawned"

\* the slot the claim gives each blocking statement
ClaimSlot(stmt, a, b) ==
    CASE stmt = "SYSCTL" -> 1
      [] stmt = "CREATE" /\ a = TokSpace /\ b.k = "ident" -> 2
      [] stmt = "CREATE" /\ a = TokModel /\ b.k = "ident" -> 3
      [] stmt = "ALTER" /\ a = TokSpace /\ b.k = "ident" -> 4
      [] stmt = "ALTER" /\ a = TokModel /\ b.k = "ident" -> 5
      [] stmt = "DROP" /\ a = TokSpace /\ b.k = "ident" -> 6
      [] stmt = "DROP" /\ a = TokModel /\ b.k = "ident" -> 7
      [] OTHER -> 0

\* C3: the index of a blocking statement is in 0..7 and is 1 for SYSCTL, 2..7 for
\* CREATE/ALTER/DROP x SPACE/MODEL followed by an identifier, and 0 otherwise, where
\* the answer is unknown-statement; at most one of the OR'ed terms is non-zero.
C3_BlockingIndex ==
    \A c \in Conns :
        conn[c].route = "pool" /\ conn[c].pc # "aborted" =>
            LET t == conn[c]
                slot == ClaimSlot(t.stmt, t.tokens[2], t.tokens[3])
                terms == blk_terms(t.stmt, t.tokens[2], t.tokens[3])
            IN  /\ Cardinality({i \in DOMAIN terms : terms[i] # 0}) <= 1
                /\ worker[c].pc # "none" =>
                       /\ worker[c].fc \in 0..7
                       /\ worker[c].fc = slot
                       /\ worker[c].pc = "finished" /\ slot = 0 =>
                              worker[c].result = "unknown-statement"
                /\ t.pc = "done" /\ slot = 0 => t.outcome = "unknown-statement"
                /\ t.pc = "done" /\ slot # 0 => t.outcome # "unknown-statement"

C3_Witness ==
    \E c \in Conns :
        /\ worker[c].pc = "finished"
        /\ worker[c].fc = 7
        /\ conn[c].stmt = "DROP"
        /\ conn[c].tokens[2] = TokModel

\* the handler the claim gives each non-blocking statement
ClaimHandler(stmt) ==
    CASE stmt = "USE" -> "use" [] stmt = "INSPECT" -> "inspect"
      [] stmt = "DESCRIBE" -> "describe" [] stmt = "INSERT" -> "insert"
      [] stmt = "SELECT" -> "select" [] stmt = "UPDATE" -> "update"
      [] stmt = "DELETE" -> "delete" [] stmt = "EXISTS" -> "exists"
      [] OTHER -> "none"

\* C4: for a non-blocking statement the index stmt - USE is in 0..7 and selects
\* that statement's own handler, in the order USE, INSPECT, DESCRIBE, INSERT,
\* SELECT, UPDATE, DELETE, EXISTS.
C4_NonBlockingIndex ==
    \A c \in Conns :
        conn[c].route = "inline" =>
            /\ nb_index(conn[c].stmt) \in 0..7
            /\ conn[c].handler = ClaimHandler(conn[c].stmt)
            /\ conn[c].handler # "none"

C4_Witness ==
    \E c \in Conns :
        /\ conn[c].pc = "done"
        /\ conn[c].stmt = "UPDATE"
        /\ conn[c].handler = "update"

\* C5: every query ends in ok or in an error kind; the executor never aborts
\* (panics, or faults) instead of returning a result.
C5_NeverAborts ==
    \A c \in Conns :
        /\ conn[c].pc # "aborted"
        /\ conn[c].outcome # "panic"
        /\ worker[c].result \notin {"panic", "fault"}

IsCreateOf(c, n) == conn[c].pc = "done" /\ conn[c].tokens = QCreateSpace(n)

\* C6: of the CREATE SPACE s statements dispatched while s was absent, run
\* concurrently on their own workers, exactly one answers ok and the others
\* already-exists, and the namespace then holds exactly one space named s.
C6_ExactlyOneCreateWins ==
    /\ \A n \in SpaceNames : wins[n] = IF st_contains(spaces, n) THEN 1 ELSE 0
    /\ \A c \in Conns : \A n \in SpaceNames :
          IsCreateOf(c, n) =>
              /\ conn[c].outcome \in {"ok", "already-exists"}
              /\ st_contains(spaces, n)
              /\ conn[c].outcome = "ok" => spaces[n] = c
    /\ \A c1, c2 \in Conns : \A n \in SpaceNames :
          /\ c1 # c2 /\ IsCreateOf(c1, n) /\ IsCreateOf(c2, n)
          /\ conn[c1].absent /\ conn[c2].absent
          /\ st_contains(spaces, n) /\ spaces[n] \in {c1, c2}
          => {conn[c1].outcome, conn[c2].outcome} = {"ok", "already-exists"}

C6_Witness ==
    \E c1, c2 \in Conns :
        /\ c1 # c2
        /\ IsCreateOf(c1, "s") /\ IsCreateOf(c2, "s")
        /\ conn[c1].absent /\ conn[c2].absent
        /\ conn[c1].outcome = "ok"
        /\ conn[c2].outcome = "already-exists"
        /\ DOMAIN spaces = {"s"}

\* the schema change of c's worker is in flight: the worker took the write guard
\* and has not yet applied the change and given the guard back
InFlight(c) == worker[c].handler \in DDLHandlers /\ worker[c].pc = "locked"
\* every worker that changes the schema is a create, alter or drop of a space or
\* a model that holds the guard
OneInFlight ==
    /\ Cardinality({c \in Conns : InFlight(c)}) <= 1
    /\ \A c \in Conns : InFlight(c) <=> guard = c
\* a step that changes the namespace is the commit of the worker in flight, which
\* gives the guard back; any other worker stays as it is
ChangeByHolder ==
    spaces' # spaces =>
        \E c \in Conns :
            /\ InFlight(c) /\ guard' = 0
            /\ worker'[c].pc = "finished" /\ worker'[c].result = "ok"
            /\ \A d \in Conns \ {c} : worker'[d] = worker[d]

C8_NoReadAfterRelease == \A c \in Conns : ~worker[c].uaf

\* C9: statements of one connection run in program order: while a worker of the
\* connection runs, its dispatcher is suspended in the await (or cancelled), so no
\* response is returned and no next statement starts before the worker is done.
C9_ProgramOrder ==
    \A c \in Conns :
        worker[c].pc # "none" => conn[c].pc \in {"dispatched", "cancelled"}

\* the connection's CREATE SPACE s has committed and been answered, and its next
\* blocking statement is being dispatched
C9_Witness ==
    \E c \in Conns :
        /\ conn[c].pc = "classify"
        /\ is_blocking(conn[c].stmt)
        /\ st_contains(spaces, "s") /\ spaces["s"] = c
\* the codec has decoded bytes; they were what it encoded
Decoded == codec.phase = "decoded"
Intact == codec.tamper = NoTamper
\* the allocator gave the decoder the memory it asked for: the process was not
\* aborted for want of memory
Granted == codec.out.k # "abort"

\* C10: decoding the encoding of a generic dictionary with no dictionary inside a
\* list yields a dictionary equal to the original
C10_RoundTrip ==
    (Decoded /\ Intact /\ Granted) => codec.out.k = "ok" /\ codec.out.v = ToMap(codec.d)

\* what the codec does deliver: the round trip holds for dictionaries whose lists,
\* at any depth, are empty
C10_RoundTripWithoutListItems ==
    (Decoded /\ Intact /\ Granted /\ ~HasNonEmptyList(codec.d))
        => codec.out.k = "ok" /\ codec.out.v = ToMap(codec.d)

C10_Witness == Decoded /\ Intact /\ Len(codec.d) = MaxEntries /\ ~HasNonEmptyList(codec.d)

\* the three errors dec_dict returns
DecodeErrors ==
    { "InternalDecodeStructureCorrupted", "InternalDecodeStructureCorruptedPayload",
      "InternalDecodeStructureIllegalData" }

IsPrefix(a, b) == Len(a) <= Len(b) /\ a = SubSeq(b, 1, Len(a))

\* every order in which a map, and the maps nested in it, can be iterated
RECURSIVE OrderingsOf(_)
OrderingsOf(m) ==
    LET K == DOMAIN m
        n == Cardinality(K)
        choices(key) == IF m[key].t = "map"
                        THEN { EMap(o) : o \in OrderingsOf(m[key].m) }
                        ELSE { m[key] }
        perms == { p \in [1..n -> K] : \A i, j \in 1..n : p[i] = p[j] => i = j }
        picks == { f \in [K -> UNION { choices(key) : key \in K }] :
                     \A key \in K : f[key] \in choices(key) }
    IN  { [i \in 1..n |-> <<p[i], f[p[i]]>>] : p \in perms, f \in picks }

\* C11: for every byte string of at most 64 bytes the decoder returns Ok(d) with the
\* encoding of d a prefix of the input, or an error; it never panics and never
\* reads past the end of the input
C11_DecoderRobust ==
    (Decoded /\ Granted) =>
        \/ codec.out.k \in DecodeErrors
        \/ /\ codec.out.k = "ok"
           /\ codec.out.pos <= Len(codec.buf)
           /\ \E o \in OrderingsOf(codec.out.v) :
                    IsPrefix(enc_dict_into_buffer(o), codec.buf)

\* the weaker property with the encoding left out: an error or Ok, never a panic or
\* a read past the end
C11_NoPanicNoOverread ==
    (Decoded /\ Granted) => codec.out.k \in DecodeErrors \cup {"ok"}

\* the low byte of the header's entry count was replaced, in the encoding of a
\* dictionary every entry of which decodes to itself
HeaderSetTo(b) ==
    /\ codec.tamper = [kind |-> "subst", at |-> 1, byte |-> b]
    /\ ~HasNonEmptyList(codec.d)
HeaderRaised == \E b \in SubstBytes : b > Len(codec.d) /\ HeaderSetTo(b)
HeaderLowered == \E b \in SubstBytes : b < Len(codec.d) /\ HeaderSetTo(b)
\* the encoding of such a dictionary was cut after its header: its last entry, at
\* least, is no longer whole; CutBetweenEntries when what is left of the first
\* entry cut is less than the 9 bytes of an entry's metadata
CutShort ==
    /\ codec.tamper.kind = "trunc" /\ codec.tamper.at >= 8
    /\ ~HasNonEmptyList(codec.d)
RECURSIVE EntryEnds(_)
EntryEnds(m) ==
    IF m = <<>> THEN {8}
    ELSE EntryEnds(SubSeq(m, 1, Len(m) - 1)) \cup {Len(enc_dict_into_buffer(m))}
CutBetweenEntries ==
    CutShort /\ \E e \in EntryEnds(codec.d) : codec.tamper.at - e \in 0..8

\* the entry count the decoder read from the header
DeclaredCount == next_u64_le(codec.buf, 0)

ListItemDscrSetTo(b) ==
    /\ Len(codec.d) = 1
    /\ codec.d[1][2].t = "data" /\ codec.d[1][2].dc.cls = "List"
    /\ read_list(codec.d[1][2].dc) # <<>>
    /\ codec.tamper = [kind |-> "subst", at |-> 8 + 9 + Len(codec.d[1][1]) + 8 + 1,
                       byte |-> b]

\* C13: a list item whose descriptor is Dict (8) or larger makes the decoder return
\* the corrupted-payload error; it neither produces a value nor aborts
C13_ListItemDictRejected ==
    \A b \in SubstBytes :
        (Decoded /\ Granted /\ b >= DscrDict /\ ListItemDscrSetTo(b))
            => codec.out.k = "InternalDecodeStructureCorruptedPayload"

\* what the decoder does for descriptors above Dict
C13_ListItemAboveDictRejected ==
    \A b \in SubstBytes :
        (Decoded /\ Granted /\ b > DscrDict /\ ListItemDscrSetTo(b))
            => codec.out.k = "InternalDecodeStructureCorruptedPayload"

\* a tag function has been applied
TagDone(op) == tagio.phase = "done" /\ tagio.op = op

\* a tag's class and unique agree with TagClass::tag_unique
TagAgrees(t) == t.some /\ t.unique = TagClass_tag_unique(t.class)

\* C15: every selector has one class, every class one unique tag that is Illegal
\* exactly for Bool, Float and List, a selector's unique tag is its class's, and
\* every FullTag of into_full or of the DataTag constants agrees with these tables
C15_TagTablesConsistent ==
    /\ TagDone("TagSelector::into_full") =>
            LET sel == TagSelectorOf(tagio.raw)
            IN  /\ TagAgrees(tagio.res)
                /\ tagio.res.selector = sel
                /\ tagio.res.class = TagSelector_tag_class(sel)
                /\ tagio.res.class \in TagClasses
                /\ TagSelector_tag_unique(sel) = TagClass_tag_unique(TagSelector_tag_class(sel))
                /\ (tagio.res.unique = "Illegal")
                        <=> (tagio.res.class \in {"Bool", "Float", "List"})
    /\ TagDone("FullTag") =>
            /\ TagAgrees(tagio.res)
            /\ tagio.res.class = TagSelector_tag_class(tagio.res.selector)
            /\ tagio.res.unique = TagSelector_tag_unique(tagio.res.selector)
    /\ TagDone("CUTag") => TagAgrees(tagio.res)

C15_Witness == TagDone("TagSelector::into_full") /\ tagio.res.class = "Float"

\* C16 (as stated): TagUnique::try_from_raw returns the tag of value v for every
\* defined TagUnique value v, Illegal (0xFF) among them, and none otherwise
C16_EveryDefinedUniqueDecodes ==
    TagDone("TagUnique::try_from_raw") =>
        IF tagio.raw \in { TagUniqueValue(u) : u \in TagUniques }
        THEN tagio.res.some /\ TagUniqueValue(tagio.res.unique) = tagio.raw
        ELSE ~tagio.res.some

\* C16 (amended): TagClass::try_from_raw returns the class of value v for v in 0..6
\* and none otherwise; TagUnique::try_from_raw returns the tag of value v for v in
\* 0..3 and none otherwise, so also for Illegal's own value 0xFF
C16_RawDecodersRejectOutOfRange ==
    /\ TagDone("TagClass::try_from_raw") =>
            IF tagio.raw \in 0..6
            THEN /\ tagio.res.some /\ tagio.res.class \in TagClasses
                 /\ TagClassValue(tagio.res.class) = tagio.raw
            ELSE ~tagio.res.some
    /\ TagDone("TagUnique::try_from_raw") =>
            IF tagio.raw \in 0..3
            THEN /\ tagio.res.some /\ tagio.res.unique \in TagUniques
                 /\ TagUniqueValue(tagio.res.unique) = tagio.raw
            ELSE ~tagio.res.some

C16_Witness ==
    TagDone("TagUnique::try_from_raw") /\ tagio.raw = TagUniqueValue("Illegal")

\* a written cell w and the cell r read back for it have the same class, r's unique
\* tag is that of w's class, and so for their list items
RECURSIVE KeptCell(_, _)
KeptCell(w, r) ==
    /\ r.cls = w.cls
    /\ decoded_unique(translate_from_class(r.cls)) = TagClass_tag_unique(w.cls)
    /\ is_null(w) \/ into_class(translate_from_class(w.cls)) = w.cls
    /\ Len(read_list(r)) = Len(read_list(w))
    /\ \A j \in 1..Len(read_list(w)) : KeptCell(read_list(w)[j], read_list(r)[j])

RECURSIVE KeptDict(_, _)
KeptDict(w, r) ==
    /\ DOMAIN r = { w[i][1] : i \in 1..Len(w) }
    /\ \A i \in 1..Len(w) :
            LET wv == w[i][2]
                rv == r[w[i][1]]
            IN  /\ rv.t = wv.t
                /\ IF wv.t = "map" THEN KeptDict(wv.m, rv.m) ELSE KeptCell(wv.dc, rv.dc)

\* C17: every value the dictionary encoder writes with class C is decoded with class
\* C and unique tag C.tag_unique(); the decoder's table gives UnsignedInt, SignedInt
\* and Illegal for the descriptors UInt, SInt and Float, and the descriptor written
\* for a non-null value of class C translates back to C
C17_ClassAndUniqueKept ==
    /\ dec_unique(DscrUnsignedInt) = "UnsignedInt"
    /\ dec_unique(DscrSignedInt) = "SignedInt"
    /\ dec_unique(DscrFloat) = "Illegal"
    /\ (Decoded /\ Intact /\ Granted)
            => codec.out.k = "ok" /\ KeptDict(codec.d, codec.out.v)

\* what the codec does deliver: classes and unique tags are kept by dictionaries
\* whose lists, at any depth, are empty
C17_KeptWithoutListItems ==
    (Decoded /\ Intact /\ Granted /\ ~HasNonEmptyList(codec.d))
        => codec.out.k = "ok" /\ KeptDict(codec.d, codec.out.v)

\* the bytes of entry e's layers, in a map of one entry
OnlyEntryLayerBytes ==
    SubSeq(fmap.buf, 8 + 25 + Len(fmap.m[1][1]) + 1, Len(fmap.buf))

\* C14: decoding the encoding of a field map returns an equal map in the original
\* declaration order; an entry is laid out as name length, a reserved property
\* count of 0, layer count, nullable byte, name bytes, then exactly layer_count
\* layers
C14_FieldMapRoundTrip ==
    /\ (fmap.phase = "decoded" /\ fmap.out.k # "abort") =>
            /\ fmap.out.k = "ok"
            /\ fmap.out.v = FieldMapAsDecoded(fmap.m)
            /\ fmap.out.pos = Len(fmap.buf)
    /\ (fmap.phase = "encoded" /\ Len(fmap.m) = 1) =>
            \A env \in Envs :
            LET name == fmap.m[1][1]
                field == fmap.m[1][2]
                layers == field_dec_layers(env, OnlyEntryLayerBytes, 0,
                                           U64(Len(field.layers)), <<>>)
            IN  /\ next_u64_le(fmap.buf, 0) = U64(1)
                /\ next_u64_le(fmap.buf, 8) = U64(Len(name))
                /\ next_u64_le(fmap.buf, 16) = U64(0)
                /\ next_u64_le(fmap.buf, 24) = U64(Len(field.layers))
                /\ next_byte(fmap.buf, 32) = B2U(field.nullable)
                /\ next_chunk_variable(fmap.buf, 33, Len(name)) = name
                /\ layers.k # "abort" =>
                        /\ layers.k = "ok" /\ layers.pos = Len(OnlyEntryLayerBytes)
                        /\ layers.v = FieldAsDecoded(field).layers

\* a property of some layer of some field holds a list with an item in it
PropsHaveListItems ==
    \E i \in 1..Len(fmap.m) : \E j \in 1..Len(fmap.m[i][2].layers) :
        HasNonEmptyList(fmap.m[i][2].layers[j].props)

\* what the codec does deliver: the round trip of the field maps whose layers'
\* properties hold no list item
C14_RoundTripWithoutListItems ==
    (fmap.phase = "decoded" /\ fmap.out.k # "abort" /\ ~PropsHaveListItems) =>
        /\ fmap.out.k = "ok"
        /\ fmap.out.v = FieldMapAsDecoded(fmap.m)
        /\ fmap.out.pos = Len(fmap.buf)

\* client c has its answer to an LSET / LGET on the list named n of a list table
LsetDone(c, n) ==
    /\ lists.model = "listmap"
    /\ lists.cl[c].pc = "done" /\ lists.cl[c].op = "lset"
    /\ lists.cl[c].args # <<>> /\ lists.cl[c].args[1] = n
LgetDone(c) ==
    /\ lists.model = "listmap"
    /\ lists.cl[c].pc = "done" /\ lists.cl[c].op = "lget"
    /\ lists.cl[c].args # <<>>

\* the answers of finished LSETs against the table
LsetAnswersHold ==
    /\ \A c \in ListClients : \A n \in ListNames :
          LsetDone(c, n) =>
              LET me == lists.cl[c]
              IN  /\ me.resp.kind \in {"okay", "overwrite-error"}
                  /\ n \in DOMAIN lists.table
                  /\ me.resp.kind = "okay" =>
                        /\ lists.table[n].by = c
                        /\ lists.table[n].items = Tail(me.args)
                  /\ me.resp.kind = "overwrite-error" =>
                        /\ me.seen.ex
                        /\ lists.table[n].items = me.seen.items
    /\ \A c1, c2 \in ListClients : \A n \in ListNames :
          /\ c1 # c2 /\ LsetDone(c1, n) /\ LsetDone(c2, n)
          /\ lists.cl[c1].absent /\ lists.cl[c2].absent
          /\ lists.table[n].by \in {c1, c2}
          => {lists.cl[c1].resp.kind, lists.cl[c2].resp.kind} = {"okay", "overwrite-error"}

\* the step in which an LSET gets its answer installs the list whole or leaves the
\* table as it was
LsetStepAllOrNothing ==
    \A c \in ListClients : \A n \in ListNames :
        (lists.cl[c].pc # "done" /\ LsetDone(c, n)')
            => IF lists'.cl[c].resp.kind = "okay"
               THEN /\ n \notin DOMAIN lists.table
                    /\ lists'.table =
                          (n :> [items |-> Tail(lists'.cl[c].args), by |-> c]) @@ lists.table
               ELSE lists'.table = lists.table

\* C18: LSET installs the list with exactly the given items, in order, and answers
\* okay when no list of that name exists; when one exists it answers overwrite-error
\* and leaves that list and every other unchanged; of two concurrent LSETs on one
\* absent name exactly one answers okay and the stored list is that one's items
C18_LsetAllOrNothing == []LsetAnswersHold /\ [][LsetStepAllOrNothing]_vars

C18_Witness ==
    \E c1, c2 \in ListClients :
        /\ c1 # c2 /\ LsetDone(c1, "x") /\ LsetDone(c2, "x")
        /\ lists.cl[c1].absent /\ lists.cl[c2].absent
        /\ lists.cl[c1].args # lists.cl[c2].args
        /\ lists.cl[c1].resp.kind = "okay"
        /\ lists.cl[c2].resp.kind = "overwrite-error"
        /\ "y" \in DOMAIN lists.table

\* the number an argument spells
ArgNat(a) == CASE a = "0" -> 0 [] a = "1" -> 1 [] a = "2" -> 2 [] a = "5" -> 5

\* the answer the four forms of LGET are to give on what was seen under the name
LgetExpected(seen, rest) ==
    IF ~seen.ex THEN Resp("nil")
    ELSE CASE rest = <<>> -> RespArray(seen.items)
           [] rest # <<>> /\ rest[1] = "LEN" -> RespInt(Len(seen.items))
           [] rest # <<>> /\ rest[1] = "LIMIT" ->
                LET n == ArgNat(rest[2])
                IN  RespArray(SubSeq(seen.items, 1,
                                     IF n < Len(seen.items) THEN n ELSE Len(seen.items)))
           [] rest # <<>> /\ rest[1] = "VALUEAT" ->
                LET i == ArgNat(rest[2])
                IN  IF i < Len(seen.items) THEN RespArray(<<seen.items[i + 1]>>)
                    ELSE Resp("nil")

\* C19: LGET list returns all items in order, LGET list LEN their number, LGET list
\* LIMIT n the first n items, LGET list VALUEAT i the i-th item or nil when i is out
\* of range; for a name that does not exist every form returns nil
C19_LgetForms ==
    \A c \in ListClients :
        LgetDone(c) =>
            lists.cl[c].resp = LgetExpected(lists.cl[c].seen, Tail(lists.cl[c].args))

\* what lget does deliver: the whole list and LEN
C19_LgetWholeAndLen ==
    \A c \in ListClients :
        (LgetDone(c) /\ (Len(lists.cl[c].args) = 1 \/ lists.cl[c].args[2] = "LEN"))
            => lists.cl[c].resp = LgetExpected(lists.cl[c].seen, Tail(lists.cl[c].args))

\* each key of the index maps to the value of its first successful insert
FirstInsertKept ==
    /\ DOMAIN index.map = DOMAIN index.first
    /\ \A key \in DOMAIN index.map : index.map[key] = index.first[key]

\* one st_insert call: true and stored when the key was absent, false and nothing
\* changed when it was present
StInsertStep ==
    LET key == index'.last.key
        val == index'.last.val
    IN  IF key \in DOMAIN index.map
        THEN /\ ~index'.last.ret
             /\ index'.map = index.map
        ELSE /\ index'.last.ret
             /\ DOMAIN index'.map = DOMAIN index.map \cup {key}
             /\ index'.map[key] = val
             /\ \A other \in DOMAIN index.map : index'.map[other] = index.map[other]

\* C20: st_insert(k, v) returns true and stores v under k when k is absent, returns
\* false leaving k's value and every other entry unchanged when k is present; after
\* any sequence of st_insert calls each key maps to the value of its first
\* successful insert
C20_FreshInsertNeverOverwrites == []FirstInsertKept /\ [][StInsertStep]_vars

C20_Witness ==
    /\ ~index.last.ret
    /\ index.last.key \in DOMAIN index.map
    /\ index.map[index.last.key] # index.last.val
    /\ Cardinality(DOMAIN index.map) = 2

\* the index before the last call, but for the key of the call
SameButKey ==
    /\ DOMAIN index.map \ {index.last.key} = DOMAIN index.before \ {index.last.key}
    /\ \A other \in DOMAIN index.map \ {index.last.key} :
            index.map[other] = index.before[other]
\* the last call replaced the value of its key, which was present
Replaced ==
    /\ DOMAIN index.map = DOMAIN index.before
    /\ index.map[index.last.key] = index.last.val
    /\ SameButKey
\* the last call removed its key, if it was there
Removed ==
    /\ index.last.key \notin DOMAIN index.map
    /\ SameButKey
    /\ ~st_delete(index.map, index.last.key).ok

\* C21: st_update(k, v) returns true and replaces the value when k is present, and
\* returns false leaving the index unchanged (no entry created) when k is absent;
\* st_update_return returns the previous value; st_delete(k) returns true exactly
\* when k was present, afterwards k is absent and a second st_delete(k) returns false
C21_UpdateDeleteReportPresence ==
    LET was == index.last.key \in DOMAIN index.before
    IN  /\ index.last.op = "st_update" =>
              /\ index.last.ok = was
              /\ IF was THEN Replaced ELSE index.map = index.before
        /\ index.last.op = "st_update_return" =>
              /\ index.last.ret
                    = (IF was THEN SomeVal(index.before[index.last.key]) ELSE NoVal)
              /\ IF was THEN Replaced ELSE index.map = index.before
        /\ index.last.op = "st_delete" =>
              /\ index.last.ok = was
              /\ Removed
        /\ index.last.op = "st_delete_return" =>
              /\ index.last.ret
                    = (IF was THEN SomeVal(index.before[index.last.key]) ELSE NoVal)
              /\ Removed

C21_Witness ==
    /\ index.last.op = "st_update"
    /\ ~index.last.ok
    /\ index.last.key \notin DOMAIN index.map
    /\ Cardinality(DOMAIN index.map) = 2

\* the number of tokens of an entity: three for the <space>.<model> of DROP MODEL,
\* one for the space of DROP SPACE
EntityLen == IF ql.node = "DropModel" THEN 3 ELSE 1
\* the range starts with an entity of elen tokens
StartsWithEntity(elen) ==
    /\ Len(ql.toks) >= elen
    /\ is_ident(ql.toks[1])
    /\ elen = 3 => ql.toks[2] = TokPeriod /\ is_ident(ql.toks[3])
\* the parse of ql.toks, when an entity is elen tokens
DropParsedWithEntity(elen) ==
    IF StartsWithEntity(elen)
    THEN /\ ql.ok /\ ql.err = "none"
         /\ ql.force = (Len(ql.toks) > elen /\ ql.toks[elen + 1] = TokForce)
         /\ ql.cursor = elen + B2U(ql.force)
         /\ ql.full = (Len(ql.toks) = ql.cursor)
    ELSE ~ql.ok /\ ql.err = "QLInvalidSyntax" /\ ~ql.full

\* C22 as stated: both parsers fail with invalid-syntax when the first token is not
\* an identifier and otherwise succeed, the entity being that token, so that the
\* cursor ends 1 token past the start without FORCE and 2 with it
C22_CursorOneOrTwo == ql.phase = "parsed" => DropParsedWithEntity(1)

\* C22, amended: DROP SPACE fails with invalid-syntax when the first token is not an
\* identifier, DROP MODEL when the range does not start with <space>.<model>;
\* otherwise force is true exactly when the token right after the entity is `force`
\* (false at the end of input), the cursor ends right after the entity without
\* FORCE and one further with it (1 and 2 for DROP SPACE, 3 and 4 for DROP MODEL),
\* and any token left after that fails the statement
C22_DropEntityThenForce == ql.phase = "parsed" => DropParsedWithEntity(EntityLen)

C22_Witness ==
    /\ ql.phase = "parsed" /\ ql.node = "DropModel"
    /\ ql.toks = <<TokIdent("s"), TokPeriod, TokIdent("s"), TokForce>>
    /\ ql.force /\ ql.cursor = 4 /\ ql.full

\* the number of backslashes in a row right before position i of the literal
RECURSIVE BackslashRun(_)
BackslashRun(i) ==
    IF i > 2 /\ ql.src[i - 1] = ChBackslash THEN 1 + BackslashRun(i - 1) ELSE 0
\* position i is escaped by the backslash before it
IsEscaped(i) == BackslashRun(i) % 2 = 1
\* the positions after the opening quote that hold an unescaped quote of its style
ClosingQuotes ==
    { i \in 2..Len(ql.src) : ql.src[i] = ql.src[1] /\ ~IsEscaped(i) }
FirstClosing == CHOOSE i \in ClosingQuotes : \A j \in ClosingQuotes : i <= j
\* the characters of src at the positions of S, in order
RECURSIVE CharsAt(_)
CharsAt(S) ==
    IF S = {} THEN <<>>
    ELSE LET i == CHOOSE x \in S : \A y \in S : x <= y
         IN  <<ql.src[i]>> \o CharsAt(S \ {i})
\* the literal between the quotes: every character but the escaping backslashes
LiteralUpTo(close) ==
    CharsAt({ i \in 2..(close - 1) : IsEscaped(i) \/ ql.src[i] # ChBackslash })
\* every escaped character before `close` is a backslash or a quote
EscapesAreLegal(close) ==
    \A i \in 2..(close - 1) : IsEscaped(i) => ql.src[i] \in Quotes \cup {ChBackslash}

\* C23: a quoted string lexes to one literal: \\ gives one backslash, a backslash
\* and a quote give that quote, the other quote style may appear unescaped, and the
\* literal ends at the first unescaped quote of the opening style; a backslash
\* before any other character, or no unescaped closing quote before the end of
\* input, fails with invalid-string-literal
C23_QuotedStringLiteral ==
    ql.phase = "lexed" =>
        IF ClosingQuotes # {} /\ EscapesAreLegal(FirstClosing)
        THEN ql.out = LexStr(LiteralUpTo(FirstClosing), FirstClosing)
        ELSE ql.out = InvalidStringLiteral

\* the text '\'"' : the escaped quote does not close, the last one does
C23_Witness ==
    /\ ql.phase = "lexed"
    /\ ql.src = <<ChSingle, ChBackslash, ChSingle, ChDouble, ChSingle>>
    /\ ql.out = LexStr(<<ChSingle, ChDouble>>, 5)

\* every separating comma of the source became exactly one comma and every
\* ignorable (trailing) comma at most one
WellSeparated ==
    \A i \in 1..Len(ql.seen) :
        IF ql.seen[i].target = "comma" THEN ql.seen[i].n = 1 ELSE ql.seen[i].n <= 1

\* C24: at every nesting depth a token stream is expected to parse, and parses to
\* the same dictionary, exactly when every two consecutive entries are separated by
\* exactly one comma and at most one comma follows the last entry of each
\* dictionary; otherwise the parse is expected to fail, and fails
C24_ParsesIffWellSeparated ==
    ql.phase = "folded" =>
        /\ ql.should_pass <=> WellSeparated
        /\ ql.r.ok <=> WellSeparated
        /\ ql.r.ok => ql.r.d = ql.src.dict
        /\ ~ql.panicked

\* the fold alone: it succeeds, with the source's dictionary, exactly on the
\* well separated streams
C24_FoldAcceptsWellSeparated ==
    ql.phase = "folded" =>
        /\ ql.r.ok <=> WellSeparated
        /\ ql.r.ok => ql.r.d = ql.src.dict

\* the layers of a declaration, innermost first, each with its own properties
RECURSIVE LayersOf(_)
LayersOf(decl) ==
    (IF decl.inner = <<>> THEN <<>> ELSE LayersOf(decl.inner[1]))
        \o <<QLayer(decl.ty, decl.before \o decl.after)>>

\* C25: folding a type declaration yields the layers innermost first: a plain type
\* gives exactly one layer, and list { .. type T {..} .. } gives layer 0 the element
\* type T with T's own properties and last the layer `list` with the properties
\* given before and after the `type` entry; the fold consumes all tokens of the
\* declaration and stops before a following `)`
C25_LayersInnermostFirst ==
    ql.phase = "layers" =>
        /\ ql.out.okay
        /\ ql.out.layers = LayersOf(ql.decl)
        /\ ql.decl.inner = <<>> => Len(ql.out.layers) = 1
        /\ (ql.decl.inner # <<>> /\ ql.decl.inner[1].inner = <<>>) => Len(ql.out.layers) = 2
        /\ ql.out.pos = Len(DeclTokens(ql.decl)) + 1

\* list { a: 1, type string { a: 1 }, z: 1 } followed by `)`
C25_Witness ==
    /\ ql.phase = "layers"
    /\ ql.decl = Decl("list", TRUE, << <<"a", DLit("1")>> >>,
                      <<Decl("string", TRUE, << <<"a", DLit("1")>> >>, <<>>, <<>>)>>,
                      << <<"z", DLit("1")>> >>)
    /\ ql.toks[Len(ql.toks)] = TokCloseParen
    /\ ql.out.layers = << QLayer("string", << <<"a", DLit("1")>> >>),
                          QLayer("list", << <<"a", DLit("1")>>, <<"z", DLit("1")>> >>) >>
    /\ ql.out.pos = Len(ql.toks)

\* the items of a list are of one type class
OneClass(l) == \A i, j \in 1..Len(l) : l[i].cls = l[j].cls
OneDisc(l) == \A i, j \in 1..Len(l) : l[i].disc = l[j].disc

\* C26: every list the system constructs is homogeneous: a list the dictionary
\* decoder returns, and a list built from an array of values, holds items of one
\* type class only
C26_ListsHomogeneous ==
    /\ (codec.phase = "decoded" /\ codec.out.k = "ok") =>
            \A key \in DOMAIN codec.out.v :
                (codec.out.v[key].t = "data" /\ codec.out.v[key].dc.cls = "List")
                    => OneClass(read_list(codec.out.v[key].dc))
    /\ memlist.phase = "list" => OneDisc(memlist.out.l)

\* the calls made so far, by name, and whether the i-th passed
CallNames == [i \in 1..Len(pobj.calls) |-> pobj.calls[i].f]
FullDecOrder ==
    <<"pretest_can_dec_metadata", "meta_dec", "pretest_can_dec_object", "obj_dec">>
AllPassedBefore(i) == \A j \in 1..(i - 1) : pobj.calls[j].ok

\* C27: default_full_dec runs its steps in a fixed order and stops at the first
\* failure: a failed metadata pretest returns corrupted-structure with no byte
\* read, meta_dec runs only after that pretest passed, a failed object pretest
\* returns corrupted-payload, and obj_dec runs only after both pretests passed
C27_FullDecStopsAtFirstFailure ==
    pobj.phase # "unused" =>
        /\ CallNames = SubSeq(FullDecOrder, 1, Len(pobj.calls))
        /\ \A i \in 1..Len(pobj.calls) : AllPassedBefore(i)
        /\ \A i \in 1..Len(pobj.calls) :
                ~pobj.calls[i].ok => /\ pobj.phase = "done"
                                     /\ i = Len(pobj.calls)
                                     /\ pobj.res # "ok"
        /\ (pobj.calls # <<>> /\ ~pobj.calls[1].ok) =>
                /\ pobj.res = "InternalDecodeStructureCorrupted"
                /\ pobj.pos = pobj.start
        /\ (Len(pobj.calls) >= 2) => has_left(pobj.buf, pobj.start, pobj.msize)
        /\ (Len(pobj.calls) = 3 /\ ~pobj.calls[3].ok) =>
                pobj.res = "InternalDecodeStructureCorruptedPayload"
        /\ (pobj.phase = "done" /\ pobj.res = "ok") =>
                /\ Len(pobj.calls) = 4
                /\ \A i \in 1..4 : pobj.calls[i].ok

\* the object pretest failed on decoded metadata: corrupted-payload, and the
\* object decoder was never called
C27_Witness ==
    /\ pobj.phase = "done"
    /\ Len(pobj.calls) = 3
    /\ pobj.calls[2].ok
    /\ ~pobj.calls[3].ok
    /\ pobj.msize = 2
    /\ pobj.pos = pobj.start + 2
    /\ pobj.res = "InternalDecodeStructureCorruptedPayload"

Elems(s) == {s[i] : i \in 1..Len(s)}
NoDuplicate(s) == \A i, j \in 1..Len(s) : s[i] = s[j] => i = j
\* s without its element at (zero-based) idx
Without(s, idx) == SubSeq(s, 1, idx) \o SubSeq(s, idx + 2, Len(s))

\* C28: remove(idx) with idx < len returns the element at idx, reduces len by one
\* and keeps the others in order; remove with idx >= len fails and changes
\* nothing; the visible slice holds exactly the pushed and not removed elements,
\* each once, and no element is dropped twice
C28_RemoveTakesOneOut ==
    uarray.phase # "unused" =>
        /\ (uarray.last.op = "remove" /\ uarray.last.ok) =>
                /\ uarray.last.arg < uarray.last.before.l
                /\ uarray.last.ret = uarray.last.before.a[uarray.last.arg + 1]
                /\ uarray.u.l = uarray.last.before.l - 1
                /\ as_slice(uarray.u) = Without(as_slice(uarray.last.before), uarray.last.arg)
        /\ (uarray.last.op = "remove" /\ ~uarray.last.ok) =>
                /\ uarray.last.arg >= uarray.last.before.l
                /\ uarray.u = uarray.last.before
        /\ uarray.phase = "array" =>
                /\ NoDuplicate(as_slice(uarray.u))
                /\ Elems(as_slice(uarray.u)) = Elems(uarray.pushed) \ Elems(uarray.removed)
        /\ NoDuplicate(uarray.dropped)

\* the first n elements of s, or all of s when it is shorter
Prefix(s, n) == SubSeq(s, 1, IF Len(s) <= n THEN Len(s) ELSE n)

\* the pushed elements that were not removed, in the order they were pushed
Remaining ==
    SelectSeq(uarray.pushed, LAMBDA e : e \notin Elems(uarray.removed))

\* C29: 0 <= len <= N in every state; push on a full array fails and changes
\* nothing, push on a non-full array writes at index len and adds one to len;
\* collecting or extending from more items than fit fails with nothing written
\* beyond the N slots; into_iter yields the elements of the array in insertion
\* order, each exactly once
C29_LenWithinCapacity ==
    uarray.phase # "unused" =>
        /\ uarray.u.l >= 0 /\ uarray.u.l <= UArrayCap
        /\ uarray.phase # "unwound" => Len(uarray.u.a) = UArrayCap
        /\ uarray.last.op = "push" =>
                /\ uarray.last.ok <=> uarray.last.before.l < UArrayCap
                /\ uarray.last.ok =>
                        uarray.u = [a |-> [uarray.last.before.a
                                              EXCEPT ![uarray.last.before.l + 1] = uarray.last.arg],
                                    l |-> uarray.last.before.l + 1]
                /\ ~uarray.last.ok => uarray.u = uarray.last.before
        /\ uarray.last.op \in {"extend", "from_iter"} =>
                /\ uarray.last.ok <=> uarray.last.before.l + uarray.last.arg <= UArrayCap
                /\ uarray.phase # "unwound" =>
                      as_slice(uarray.u) =
                        as_slice(uarray.last.before)
                            \o Prefix(Fresh(uarray.next - uarray.last.arg, uarray.last.arg),
                                      UArrayCap - uarray.last.before.l)
        /\ uarray.phase = "unwound" =>
                /\ uarray.last.op = "from_iter" /\ ~uarray.last.ok
                /\ uarray.u = NoArray
                /\ Len(uarray.pushed) = UArrayCap
                /\ NoDuplicate(uarray.dropped)
                /\ Elems(uarray.dropped) = Elems(Fresh(1, uarray.last.arg))
        /\ uarray.phase \in {"iter", "iterated"} =>
                /\ uarray.it.l = Len(uarray.src)
                /\ uarray.it.i <= uarray.it.l
                /\ uarray.out = SubSeq(uarray.src, 1, uarray.it.i)
                /\ uarray.src = Remaining
                /\ NoDuplicate(uarray.src)
        /\ uarray.phase = "iterated" => uarray.out = uarray.src

\* C30: run_query always terminates: whatever the server sends, and also when it
\* closes the connection before any byte or after a part of a response, the
\* call returns
C30_RunQueryTerminates == <>(client.pc = "returned")
====
